---- MODULE Spec2Model ----
(***************************************************************************)
(* Model of the VUSD application's treasury valuation (useTreasury.ts) and *)
(* of its swap hook and swap form (useSwap, SwapInterface).                *)
(*                                                                         *)
(* JavaScript numbers are modelled as exact rationals <<n, d>> in lowest   *)
(* terms; on-chain integers are naturals.  Token precisions 18 and 6 are   *)
(* represented by Dec18 and Dec6 so that raw amounts stay inside TLC's     *)
(* integers; every scaling goes through Pow10 of the declared precision.   *)
(***************************************************************************)
EXTENDS Integers, Sequences, FiniteSets, TLC

\* ------------------------------------------------------------------ bounds
Dec18 == 2
Dec6 == 1
MaxRuns == 2
MaxFetches == 2

\* ------------------------------------------------------- numbers (rationals)
Abs(n) == IF n < 0 THEN 0 - n ELSE n

RECURSIVE GCD(_, _)
GCD(a, b) == IF b = 0 THEN a ELSE GCD(b, a % b)

Rat(n, d) == IF n = 0 THEN <<0, 1>>
             ELSE LET g == GCD(Abs(n), d) IN <<n \div g, d \div g>>

Num(n) == <<n, 1>>

RAdd(x, y) == LET l == (x[2] * y[2]) \div GCD(x[2], y[2])
              IN Rat(x[1] * (l \div x[2]) + y[1] * (l \div y[2]), l)

RSub(x, y) == RAdd(x, <<0 - y[1], y[2]>>)

RMul(x, y) == LET a == Rat(x[1], y[2])
                  b == Rat(y[1], x[2])
              IN Rat(a[1] * b[1], a[2] * b[2])

RDiv(x, y) == RMul(x, <<y[2], y[1]>>)

RECURSIVE Pow10(_)
Pow10(n) == IF n = 0 THEN 1 ELSE 10 * Pow10(n - 1)

formatUnits(raw, decimals) == Rat(raw, Pow10(decimals))

\* ---------------------------------------------------------------- addresses
\* An address is an account id together with the letter case of its hex text.
Addr(id, cs) == [id |-> id, cs |-> cs]

toLowerCase(a) == [a EXCEPT !.cs = "lower"]

VUSD_ADDRESS == Addr("VUSD", "mixed")

STABLECOIN_ADDRESSES == [USDC |-> Addr("USDC", "mixed"),
                         USDT |-> Addr("USDT", "mixed"),
                         DAI |-> Addr("DAI", "mixed")]

SUPPORTED_TOKENS == << [symbol |-> "VUSD", address |-> Addr("VUSD", "mixed"), decimals |-> Dec18],
                       [symbol |-> "USDC", address |-> Addr("USDC", "mixed"), decimals |-> Dec6],
                       [symbol |-> "USDT", address |-> Addr("USDT", "mixed"), decimals |-> Dec6],
                       [symbol |-> "DAI", address |-> Addr("DAI", "mixed"), decimals |-> Dec18] >>

T2_ASSETS == << [symbol |-> "stETH", decimals |-> Dec18, assetType |-> "STAKED_ETH",
                 address |-> Addr("stETH", "mixed")],
                [symbol |-> "VUSD/ETH LP", decimals |-> Dec18, assetType |-> "LP_TOKEN",
                 address |-> Addr("LP_ETH", "mixed")],
                [symbol |-> "VUSD/USDC LP", decimals |-> Dec18, assetType |-> "LP_TOKEN",
                 address |-> Addr("LP_USDC", "mixed")] >>

\* results of awaited reads: a value, or a rejection
Fail == [ok |-> FALSE, v |-> 0]
Ok(v) == [ok |-> TRUE, v |-> v]

\* ------------------------------------------------------------ asset valuation
valueStakedEthAsset(hasPooled, pooled, tokenBalance, ethPrice, decimals) ==
  LET balance == formatUnits(tokenBalance, decimals)
      ethEquivalent == IF hasPooled /\ pooled.ok
                       THEN formatUnits(pooled.v, Dec18)
                       ELSE balance
  IN [value |-> RMul(ethEquivalent, Num(ethPrice)), balance |-> balance]

valueLpTokenAsset_CountsVusdSide(hasFns, rd, tokenBalance, ethPrice, decimals) ==
  LET balance == formatUnits(tokenBalance, decimals)
      ownershipRatio == Rat(tokenBalance, rd.totalSupply)
      token0IsVusd == toLowerCase(rd.token0) = toLowerCase(VUSD_ADDRESS)
      otherTokenReserve == IF token0IsVusd THEN rd.reserve1 ELSE rd.reserve0
      otherTokenAddress == IF token0IsVusd THEN toLowerCase(rd.token1) ELSE toLowerCase(rd.token0)
      ownedVusd == RMul(formatUnits(IF token0IsVusd THEN rd.reserve0 ELSE rd.reserve1, Dec18),
                        ownershipRatio)
      ownedOtherValue ==
        IF otherTokenAddress \in {toLowerCase(STABLECOIN_ADDRESSES.USDC),
                                  toLowerCase(STABLECOIN_ADDRESSES.USDT)}
        THEN RMul(formatUnits(otherTokenReserve, Dec6), ownershipRatio)
        ELSE IF otherTokenAddress = toLowerCase(STABLECOIN_ADDRESSES.DAI)
        THEN RMul(formatUnits(otherTokenReserve, Dec18), ownershipRatio)
        ELSE RMul(RMul(formatUnits(otherTokenReserve, Dec18), ownershipRatio), Num(ethPrice))
  IN IF ~hasFns \/ ~rd.ok
     THEN [value |-> RDiv(RMul(balance, Num(ethPrice)), Num(2)), balance |-> balance]
     ELSE IF toLowerCase(rd.token0) = toLowerCase(VUSD_ADDRESS)
             \/ toLowerCase(rd.token1) = toLowerCase(VUSD_ADDRESS)
     THEN [value |-> RAdd(ownedOtherValue, ownedVusd), balance |-> balance]
     ELSE [value |-> RDiv(RMul(RAdd(RMul(formatUnits(rd.reserve0, Dec18), ownershipRatio),
                                    RMul(formatUnits(rd.reserve1, Dec18), ownershipRatio)),
                               Num(ethPrice)), Num(2)),
           balance |-> balance]

valueLpTokenAsset(hasFns, rd, tokenBalance, ethPrice, decimals) ==
  LET balance == formatUnits(tokenBalance, decimals)
      default == RDiv(RMul(balance, Num(ethPrice)), Num(2))
      ownershipRatio == Rat(tokenBalance, rd.totalSupply)
      token0AddressLower == toLowerCase(rd.token0)
      token1AddressLower == toLowerCase(rd.token1)
      vusdAddressLower == toLowerCase(VUSD_ADDRESS)
      usdcAddressLower == toLowerCase(STABLECOIN_ADDRESSES.USDC)
      usdtAddressLower == toLowerCase(STABLECOIN_ADDRESSES.USDT)
      daiAddressLower == toLowerCase(STABLECOIN_ADDRESSES.DAI)
      otherTokenReserve == IF token0AddressLower = vusdAddressLower
                           THEN rd.reserve1 ELSE rd.reserve0
      otherTokenAddress == IF token0AddressLower = vusdAddressLower
                           THEN token1AddressLower ELSE token0AddressLower
      ownedOtherValue ==
        IF otherTokenAddress = usdcAddressLower
        THEN RMul(formatUnits(otherTokenReserve, Dec6), ownershipRatio)
        ELSE IF otherTokenAddress = usdtAddressLower
        THEN RMul(formatUnits(otherTokenReserve, Dec6), ownershipRatio)
        ELSE IF otherTokenAddress = daiAddressLower
        THEN RMul(formatUnits(otherTokenReserve, Dec18), ownershipRatio)
        ELSE RMul(RMul(formatUnits(otherTokenReserve, Dec18), ownershipRatio), Num(ethPrice))
      reserve0Value == RMul(formatUnits(rd.reserve0, Dec18), ownershipRatio)
      reserve1Value == RMul(formatUnits(rd.reserve1, Dec18), ownershipRatio)
  IN IF ~hasFns \/ ~rd.ok
     THEN [value |-> default, balance |-> balance]
     ELSE IF token0AddressLower = vusdAddressLower \/ token1AddressLower = vusdAddressLower
     THEN [value |-> ownedOtherValue, balance |-> balance]
     ELSE [value |-> RDiv(RMul(RAdd(reserve0Value, reserve1Value), Num(ethPrice)), Num(2)),
           balance |-> balance]

valueGenericErc20Asset(tokenBalance, decimals) ==
  LET balance == formatUnits(tokenBalance, decimals)
  IN [value |-> RMul(balance, Num(10)), balance |-> balance]

\* ------------------------------------------------------- treasury aggregation
FindToken(tokenAddress) ==
  LET hits == {i \in 1..Len(SUPPORTED_TOKENS) :
                 toLowerCase(SUPPORTED_TOKENS[i].address) = toLowerCase(tokenAddress)}
  IN IF hits = {} THEN Fail
     ELSE Ok(SUPPORTED_TOKENS[CHOOSE i \in hits : \A j \in hits : i <= j])

fetchEthPrice(resp) == IF resp.ok THEN resp.v ELSE 3500

\* the loop over the whitelisted tokens, from index i on; a rejected
\* withdrawable() read leaves the loop (and the run) by the outer catch
RECURSIVE T1Loop(_, _, _)
T1Loop(r1, i, acc) ==
  IF i > Len(r1.whitelist.v) THEN Ok(acc)
  ELSE LET tokenAddress == r1.whitelist.v[i]
           token == FindToken(tokenAddress)
       IN IF ~token.ok THEN T1Loop(r1, i + 1, acc)
          ELSE LET withdrawable == r1.withdrawable[tokenAddress.id]
               IN IF ~withdrawable.ok THEN Fail
                  ELSE LET balance == formatUnits(withdrawable.v, token.v.decimals)
                           value == balance
                       IN T1Loop(r1, i + 1,
                                 [t1Assets |-> Append(acc.t1Assets,
                                                  [symbol |-> token.v.symbol, value |-> value,
                                                   balance |-> balance, address |-> tokenAddress]),
                                  t1Value |-> RAdd(acc.t1Value, value)])

T1Phase(r1) ==
  IF ~r1.supply.ok \/ ~r1.whitelist.ok THEN Fail
  ELSE T1Loop(r1, 1, [t1Assets |-> <<>>, t1Value |-> Num(0)])

placeholderValue(symbol) ==
  IF symbol = "stETH" THEN 64640
  ELSE IF symbol = "VUSD/ETH LP" THEN 4375
  ELSE IF symbol = "VUSD/USDC LP" THEN 1012
  ELSE 0

includesLP(symbol) == symbol \in {"VUSD/ETH LP", "VUSD/USDC LP"}

T2Catch_PushWithoutAdding(acc, t2Asset, dev) ==
  IF dev
  THEN [acc EXCEPT !.t2Assets = Append(@,
         [symbol |-> t2Asset.symbol, value |-> Num(placeholderValue(t2Asset.symbol)),
          balance |-> Num(0), address |-> t2Asset.address])]
  ELSE acc

\* the catch block of one tier-2 asset
T2Catch(acc, t2Asset, dev) ==
  IF dev
  THEN [t2Assets |-> Append(acc.t2Assets,
          [symbol |-> t2Asset.symbol,
           value |-> Num(placeholderValue(t2Asset.symbol)),
           balance |-> IF includesLP(t2Asset.symbol) THEN Num(0)
                       ELSE RDiv(Num(placeholderValue(t2Asset.symbol)), Num(3500)),
           address |-> t2Asset.address]),
        t2Value |-> RAdd(acc.t2Value, Num(placeholderValue(t2Asset.symbol)))]
  ELSE acc

\* the body of the loop over T2_ASSETS for one asset; r is what its reads return
T2Asset(acc, t2Asset, r, ethPrice, dev) ==
  IF ~r.pre.ok THEN T2Catch(acc, t2Asset, dev)
  ELSE LET tokenBalance == r.pre.v
           result == IF t2Asset.assetType = "STAKED_ETH"
                     THEN valueStakedEthAsset(TRUE, r.pooled, tokenBalance, ethPrice,
                                              t2Asset.decimals)
                     ELSE IF t2Asset.assetType = "LP_TOKEN"
                     THEN valueLpTokenAsset(TRUE, r.lp, tokenBalance, ethPrice,
                                            t2Asset.decimals)
                     ELSE valueGenericErc20Asset(tokenBalance, t2Asset.decimals)
       IN [t2Assets |-> Append(acc.t2Assets,
              [symbol |-> t2Asset.symbol, value |-> result.value,
               balance |-> result.balance, address |-> t2Asset.address]),
           t2Value |-> RAdd(acc.t2Value, result.value)]

RECURSIVE T2Loop(_, _, _, _, _)
T2Loop(r2, i, acc, ethPrice, dev) ==
  IF i > Len(T2_ASSETS) THEN acc
  ELSE T2Loop(r2, i + 1, T2Asset(acc, T2_ASSETS[i], r2[i], ethPrice, dev), ethPrice, dev)

Aggregate_AbortOnT2Failure(r1, r2, dev) ==
  LET t1 == T1Phase(r1)
  IN IF ~t1.ok \/ \E i \in 1..Len(T2_ASSETS) : ~r2[i].pre.ok THEN Fail
     ELSE LET t2 == T2Loop(r2, 1, [t2Assets |-> <<>>, t2Value |-> Num(0)],
                           fetchEthPrice(r1.ethResp), dev)
              totalValue == RAdd(t1.v.t1Value, t2.t2Value)
              circulatingSupply == formatUnits(r1.supply.v, Dec18)
          IN Ok([totalValue |-> totalValue, t1Value |-> t1.v.t1Value, t2Value |-> t2.t2Value,
                 circulatingSupply |-> circulatingSupply,
                 collateralizationRatio |-> IF circulatingSupply[1] > 0
                                            THEN RDiv(totalValue, circulatingSupply) ELSE Num(0),
                 excessValue |-> RSub(totalValue, circulatingSupply),
                 t1Assets |-> t1.v.t1Assets, t2Assets |-> t2.t2Assets])

\* the try block of fetchTreasuryData: the report it publishes, or Fail when
\* a read outside the per-asset try blocks rejects
Aggregate(r1, r2, dev) ==
  LET t1 == T1Phase(r1)
  IN IF ~t1.ok THEN Fail
     ELSE LET ethPrice == fetchEthPrice(r1.ethResp)
              t2 == T2Loop(r2, 1, [t2Assets |-> <<>>, t2Value |-> Num(0)], ethPrice, dev)
              totalValue == RAdd(t1.v.t1Value, t2.t2Value)
              circulatingSupply == formatUnits(r1.supply.v, Dec18)
              collateralizationRatio == IF circulatingSupply[1] > 0
                                        THEN RDiv(totalValue, circulatingSupply)
                                        ELSE Num(0)
              excessValue == RSub(totalValue, circulatingSupply)
          IN Ok([totalValue |-> totalValue, t1Value |-> t1.v.t1Value, t2Value |-> t2.t2Value,
                 circulatingSupply |-> circulatingSupply,
                 collateralizationRatio |-> collateralizationRatio,
                 excessValue |-> excessValue,
                 t1Assets |-> t1.v.t1Assets, t2Assets |-> t2.t2Assets])

\* ------------------------------------------- what the chain reads can return
NoLp == [ok |-> FALSE, totalSupply |-> 1, reserve0 |-> 0, reserve1 |-> 0,
         token0 |-> VUSD_ADDRESS, token1 |-> VUSD_ADDRESS]

T1Reads == [supply : {Fail, Ok(0), Ok(2 * Pow10(Dec18))},
            whitelist : {Fail, Ok(<<Addr("USDC", "mixed"), Addr("OTHER", "mixed"),
                                    Addr("DAI", "lower")>>)},
            withdrawable : [{"USDC", "DAI"} -> {Fail, Ok(15 * Pow10(Dec6 - 1))}],
            ethResp : {Fail, Ok(2000)}]

StEthFailed == [pre |-> Fail, pooled |-> Fail, lp |-> NoLp]

StEthReads == {StEthFailed,
               [pre |-> Ok(Pow10(Dec18)), pooled |-> Fail, lp |-> NoLp],
               [pre |-> Ok(Pow10(Dec18)), pooled |-> Ok(11 * Pow10(Dec18 - 1)), lp |-> NoLp]}

LpPool(other) == [ok |-> TRUE, totalSupply |-> 4 * Pow10(Dec18),
                  reserve0 |-> 8 * Pow10(Dec18), reserve1 |-> 6 * Pow10(Dec18),
                  token0 |-> Addr("VUSD", "mixed"), token1 |-> Addr(other, "mixed")]

LpEthReads == {StEthFailed,
               [pre |-> Ok(Pow10(Dec18)), pooled |-> Fail, lp |-> NoLp],
               [pre |-> Ok(Pow10(Dec18)), pooled |-> Fail, lp |-> LpPool("WETH")]}

LpUsdcReads == {StEthFailed,
                [pre |-> Ok(Pow10(Dec18)), pooled |-> Fail, lp |-> LpPool("USDC")]}

T2Reads == {<<a, b, c>> : a \in StEthReads, b \in LpEthReads, c \in LpUsdcReads}

\* the tier-2 reads a run makes: none when a tier-1 read has rejected before
T2ReadsAfter(r1) == IF T1Phase(r1).ok THEN T2Reads
                    ELSE {<<StEthFailed, StEthFailed, StEthFailed>>}

\* whether every read made outside the per-asset try blocks returned
T1ReadsOk(r1) ==
  /\ r1.supply.ok
  /\ r1.whitelist.ok
  /\ \A i \in 1..Len(r1.whitelist.v) :
        r1.whitelist.v[i].id \in DOMAIN r1.withdrawable
          => r1.withdrawable[r1.whitelist.v[i].id].ok

\* --------------------------------------------------------------------- state
VARIABLES treasuryData, treasuryLoading, treasuryErrors, devMode,
          tRuns, tStarted, tLast, tPub,
          lpIn, lpOut

\* the swap form: React state of useSwap and SwapInterface (ui), the pending
\* debounce timers, estimateSwap calls in flight, the approval effect's timers
\* and checks in flight, click handlers in flight and the last one that ended,
\* the chain's allowances and
\* balances of the connected account; calls, applied, lastCheck and burst
\* observe
VARIABLES ui, debouncedEstimate, estimates, approvalTimers, checks, txRuns, lastRun,
          started, allowance, chainBalances, calls, applied, lastCheck, burst

\* the connected account, the clock, the timestamp of the balance cache, the
\* fetchBalances calls reading the chain; lastCall observes the last call
VARIABLES address, now, balanceLastUpdated, balanceFetches, lastCall

tvars == <<treasuryData, treasuryLoading, treasuryErrors, devMode, tRuns, tStarted, tLast, tPub>>
lpvars == <<lpIn, lpOut>>
swapvars == <<ui, debouncedEstimate, estimates, approvalTimers, checks, txRuns, lastRun,
              started, allowance, chainBalances, calls, applied, lastCheck, burst>>
\* the fees the Minter and the Redeemer contracts answer (raw, of MAX_BPS)
VARIABLES chainFees

\* lastEstimate observes the last call of estimateSwap made on the hook
VARIABLES lastEstimate

obsvars == <<lastEstimate>>
chainvars == <<chainFees>>
balvars == <<address, now, balanceLastUpdated, balanceFetches, lastCall>>
vars == <<tvars, lpvars, swapvars, balvars, chainvars, obsvars>>

InitialTreasuryData ==
  [totalValue |-> Num(4721834), t1Value |-> Num(4521834), t2Value |-> Num(200000),
   circulatingSupply |-> Num(4500000), collateralizationRatio |-> Rat(1049, 1000),
   excessValue |-> Num(221834),
   t1Assets |-> << [symbol |-> "USDC", value |-> Num(2105322), balance |-> Num(2105322),
                    address |-> Addr("USDC", "mixed")],
                   [symbol |-> "DAI", value |-> Num(1826409), balance |-> Num(1826409),
                    address |-> Addr("DAI", "mixed")],
                   [symbol |-> "USDT", value |-> Num(590103), balance |-> Num(590103),
                    address |-> Addr("USDT", "mixed")] >>,
   t2Assets |-> << [symbol |-> "stETH", value |-> Num(125000), balance |-> Num(125000),
                    address |-> Addr("stETH", "mixed")],
                   [symbol |-> "VUSD/ETH LP", value |-> Num(75000), balance |-> Num(75000),
                    address |-> Addr("LP_ETH", "mixed")] >>]

NoReads == [t1 |-> [supply |-> Fail, whitelist |-> Fail,
                    withdrawable |-> [k \in {"USDC", "DAI"} |-> Fail], ethResp |-> Fail],
            t2 |-> <<>>]

TreasuryInit ==
  /\ treasuryData = InitialTreasuryData
  /\ treasuryLoading = FALSE
  /\ treasuryErrors = 0
  /\ devMode \in BOOLEAN
  /\ tRuns = {}
  /\ tStarted = 0
  /\ tLast = [seq |-> 0, outcome |-> "none", t1ok |-> FALSE]
  /\ tPub = [seq |-> 0, rd |-> NoReads]

\* refreshTreasuryData(forceRefresh): fetchTreasuryData up to its first await;
\* the function declares no parameter, so the argument callers pass is dropped
FetchStart(forceRefresh) ==
  /\ tStarted < MaxFetches
  /\ Cardinality(tRuns) < MaxRuns
  /\ tStarted' = tStarted + 1
  /\ tRuns' = tRuns \cup {tStarted + 1}
  /\ treasuryLoading' = TRUE
  /\ UNCHANGED <<treasuryData, treasuryErrors, devMode, tLast, tPub>>

FetchFail_KeepsLoading(seq) ==
  /\ seq \in tRuns
  /\ \E r1 \in T1Reads : \E r2 \in T2ReadsAfter(r1) :
       /\ ~Aggregate(r1, r2, devMode).ok
       /\ tLast' = [seq |-> seq, outcome |-> "failed", t1ok |-> T1ReadsOk(r1)]
  /\ tRuns' = tRuns \ {seq}
  /\ treasuryErrors' = treasuryErrors + 1
  /\ UNCHANGED <<treasuryLoading, treasuryData, devMode, tStarted, tPub>>

\* the rest of a run that ends in the outer catch: toast, then finally
FetchFail(seq) ==
  /\ seq \in tRuns
  /\ \E r1 \in T1Reads : \E r2 \in T2ReadsAfter(r1) :
       /\ ~Aggregate(r1, r2, devMode).ok
       /\ tLast' = [seq |-> seq, outcome |-> "failed", t1ok |-> T1ReadsOk(r1)]
  /\ tRuns' = tRuns \ {seq}
  /\ treasuryErrors' = treasuryErrors + 1
  /\ treasuryLoading' = FALSE
  /\ UNCHANGED <<treasuryData, devMode, tStarted, tPub>>

\* the rest of a run whose try block completes: setTreasuryData, then finally
FetchPublish(seq) ==
  /\ seq \in tRuns
  /\ \E r1 \in T1Reads : \E r2 \in T2ReadsAfter(r1) :
       LET res == Aggregate(r1, r2, devMode)
       IN /\ res.ok
          /\ treasuryData' = res.v
          /\ tPub' = [seq |-> seq, rd |-> [t1 |-> r1, t2 |-> r2]]
          /\ tLast' = [seq |-> seq, outcome |-> "published", t1ok |-> T1ReadsOk(r1)]
  /\ tRuns' = tRuns \ {seq}
  /\ treasuryLoading' = FALSE
  /\ UNCHANGED <<treasuryErrors, devMode, tStarted>>

\* ============================================================ swap (useSwap)
Symbols == {"VUSD", "USDC", "USDT", "DAI"}

RLess(x, y) == x[1] * y[2] < y[1] * x[2]

getTokenDecimals(symbol) ==
  LET hits == {i \in 1..Len(SUPPORTED_TOKENS) : SUPPORTED_TOKENS[i].symbol = symbol}
  IN IF hits = {} THEN Dec18 ELSE SUPPORTED_TOKENS[CHOOSE i \in hits : TRUE].decimals

getSwapDirection_Misspelled(outTok) == IF outTok = "vusd" THEN "toVUSD" ELSE "fromVUSD"

getSwapDirection(outTok) == IF outTok = "VUSD" THEN "toVUSD" ELSE "fromVUSD"

\* ethers.parseUnits(amount.toString(), decimals): the raw integer, or a throw
\* when the text has more fractional digits than the precision holds
parseUnits(amount, decimals) ==
  IF (amount[1] * Pow10(decimals)) % amount[2] = 0
  THEN Ok((amount[1] * Pow10(decimals)) \div amount[2])
  ELSE Fail

\* --- the contracts' view functions (fees in units of 1/10000)
MAX_BPS == 10000

calculateMintage(fromTok, amountIn, mintingFee) ==
  (amountIn * Pow10(Dec18 - getTokenDecimals(fromTok)) * (MAX_BPS - mintingFee)) \div MAX_BPS

redeemable(toTok, vusdAmount, redeemFee) ==
  ((vusdAmount * (MAX_BPS - redeemFee)) \div MAX_BPS) \div Pow10(Dec18 - getTokenDecimals(toTok))

MaxUint256 == 2147483647

\* ------------------------------------------------ rendering and its effects
ComputeButton(s) ==
  IF ~s.isConnected THEN [text |-> "Connect Wallet", disabled |-> FALSE]
  ELSE IF s.inputAmount[1] = 0 \/ RLess(s.inputAmount, Rat(1, 10000))
  THEN [text |-> "Enter amount (min 0.0001)", disabled |-> TRUE]
  ELSE IF s.inputAmount[1] > 0 /\ RLess(s.balances[s.inputToken], s.inputAmount)
  THEN [text |-> "Insufficient " \o s.inputToken \o " balance", disabled |-> TRUE]
  ELSE IF s.needsApproval THEN [text |-> "Approve", disabled |-> FALSE]
  ELSE [text |-> "Swap", disabled |-> FALSE]

ButtonDeps(s) ==
  <<s.isConnected, s.inputAmount[1] > 0, s.inputToken,
    RLess(s.balances[s.inputToken], s.inputAmount),
    s.needsApproval, s.loading, s.checkingApproval>>

\* the button effect of a render of s that follows a render of prev
ButtonEffect(prev, s) ==
  IF ButtonDeps(prev) = ButtonDeps(s) \/ s.loading \/ s.checkingApproval
  THEN s.buttonState
  ELSE ComputeButton(s)

DebounceDeps(s) == <<s.inputAmount, s.inputToken, s.outputToken>>

ApprovalIdle(s) == ~s.isConnected \/ s.inputAmount[1] <= 0

\* the state after the effects of a render of s (previous render: prev) and
\* of the render their own state updates cause
Render(prev, s) ==
  IF s = prev THEN s
  ELSE LET s1 == [s EXCEPT
                    !.outputAmount = IF DebounceDeps(prev) # DebounceDeps(s)
                                        /\ s.inputAmount[1] <= 0
                                     THEN Num(0) ELSE @,
                    !.buttonState = ButtonEffect(prev, s),
                    !.needsApproval = IF ApprovalIdle(s) THEN FALSE ELSE @,
                    !.checkingApproval = IF ApprovalIdle(s) THEN FALSE ELSE @]
       IN IF s1 = s THEN s1
          ELSE [s1 EXCEPT !.buttonState = ButtonEffect(s, s1)]

\* the pending debounce timers after a render of s: when the effect's inputs
\* changed its cleanup clears the timer and a positive amount arms a new one
DebounceAfter_NoCleanup(prev, s, timers) ==
  IF DebounceDeps(prev) = DebounceDeps(s) THEN timers
  ELSE IF s.inputAmount[1] <= 0 THEN timers
  ELSE timers \cup {[amount |-> s.inputAmount, fromToken |-> s.inputToken,
                      toToken |-> s.outputToken]}

DebounceAfter(prev, s, timers) ==
  IF DebounceDeps(prev) = DebounceDeps(s) THEN timers
  ELSE IF s.inputAmount[1] <= 0 THEN {}
  ELSE {[amount |-> s.inputAmount, fromToken |-> s.inputToken,
         toToken |-> s.outputToken]}

\* the approval-check timers after a render that ends in state f: the effect
\* depends on getConnectedContracts, a new function in every render, so every
\* render cleans the previous timers up and arms new ones
ApprovalTimersAfter(prev, f, timers) ==
  IF f = prev THEN timers
  ELSE IF ApprovalIdle(f) THEN {}
  ELSE IF f.checkingApproval THEN {"periodic"}
  ELSE {"initial", "periodic"}

RECURSIVE Deactivate(_)
Deactivate(cs) ==
  IF cs = <<>> THEN <<>>
  ELSE <<[cs[1] EXCEPT !.isActive = FALSE]>> \o Deactivate(Tail(cs))

RemoveAt(seq, i) == SubSeq(seq, 1, i - 1) \o SubSeq(seq, i + 1, Len(seq))

\* ------------------------------------------------------- swap form state
MaxChanges == 2
MaxEstimates == 2

MintingFee == 1
RedeemFee == 10

\* the fees of the deployed contracts
DeployedFees == [minter |-> MintingFee, redeemer |-> RedeemFee]

\* whole tokens of each kind held by the connected account
ExecBalance == 5

Stablecoins == Symbols \ {"VUSD"}

AllowKeys == {<<t, "minter">> : t \in Stablecoins} \cup {<<"VUSD", "redeemer">>}

InitialUi ==
  [isConnected |-> FALSE, inputToken |-> "USDC", outputToken |-> "VUSD",
   inputAmount |-> Num(0), outputAmount |-> Num(0), fee |-> Rat(3, 1000),
   loading |-> FALSE, needsApproval |-> FALSE, checkingApproval |-> FALSE,
   balances |-> [t \in Symbols |-> Num(0)], txStatus |-> "none",
   buttonState |-> [text |-> "Connect Wallet", disabled |-> FALSE],
   toast |-> "none"]

Operations == {"estimateSwap", "approvalCheck", "approveTokens", "executeSwap"}

NoCall == [fromToken |-> "none", toToken |-> "none", target |-> "none"]

NoApplied ==
  [set |-> FALSE, amount |-> Num(0), fromToken |-> "USDC", toToken |-> "VUSD",
   curAmount |-> Num(0), curFrom |-> "USDC", curTo |-> "VUSD"]

NoCheck ==
  [arrived |-> FALSE, written |-> FALSE, amount |-> Num(0), fromToken |-> "USDC",
   toToken |-> "VUSD", curAmount |-> Num(0), curFrom |-> "USDC", curTo |-> "VUSD"]

NoRun ==
  [kind |-> "swap", viaHandler |-> FALSE, inputToken |-> "USDC", outputToken |-> "VUSD",
   inputAmount |-> Num(0), direction |-> "toVUSD", amount |-> 0,
   allowanceRead |-> Fail, ops |-> <<>>, pc |-> "none"]

NoBurst ==
  [open |-> FALSE, n |-> 0, tokenChanged |-> FALSE, issued |-> <<>>, total |-> 0]

\* the form after mount, wallet not connected
SwapInit ==
  /\ ui = InitialUi
  /\ debouncedEstimate = {}
  /\ estimates = <<>>
  /\ approvalTimers = {}
  /\ checks = <<>>
  /\ txRuns = <<>>
  /\ lastRun = NoRun
  /\ started = 0
  /\ allowance = [k \in AllowKeys |-> 0]
  /\ chainBalances = [t \in Symbols |-> 0]
  /\ calls = [by \in Operations |-> NoCall]
  /\ applied = NoApplied
  /\ lastCheck = NoCheck
  /\ burst = NoBurst

\* React commits the batched updates s: the render and its effects
Commit(s, timers, cks) ==
  LET f == Render(ui, s)
  IN /\ ui' = f
     /\ debouncedEstimate' = DebounceAfter(ui, s, timers)
     /\ approvalTimers' = ApprovalTimersAfter(ui, f, approvalTimers)
     /\ checks' = IF f = ui THEN cks ELSE Deactivate(cks)

\* a change of the form's inputs opens (or extends) a debounce window
BurstAfter(s, tokenChange) ==
  IF DebounceDeps(s) = DebounceDeps(ui) THEN burst
  ELSE IF burst.open
  THEN [burst EXCEPT !.n = @ + 1, !.total = @ + 1,
                     !.tokenChanged = @ \/ tokenChange]
  ELSE [burst EXCEPT !.open = TRUE, !.n = 1, !.total = @ + 1,
                     !.tokenChanged = tokenChange, !.issued = <<>>]

\* what the amount field can hold: empty, "1", "2"
TypedValues == {[empty |-> TRUE, parsed |-> Num(0)],
                [empty |-> FALSE, parsed |-> Num(1)],
                [empty |-> FALSE, parsed |-> Num(2)]}

handleInputChange(value) ==
  /\ burst.total < MaxChanges
  /\ LET amount == IF ~value.empty /\ RLess(value.parsed, Rat(1, 10000))
                   THEN Rat(1, 10000) ELSE value.parsed
         s == [ui EXCEPT !.inputAmount = amount]
     IN /\ s # ui
        /\ Commit(s, debouncedEstimate, checks)
        /\ burst' = BurstAfter(s, FALSE)
  /\ UNCHANGED <<estimates, txRuns, lastRun, started, allowance, chainBalances, calls, applied, lastCheck>>

switchTokens ==
  /\ burst.total < MaxChanges
  /\ LET s == [ui EXCEPT !.inputToken = ui.outputToken,
                         !.outputToken = ui.inputToken,
                         !.inputAmount = ui.outputAmount]
     IN /\ Commit(s, debouncedEstimate, checks)
        /\ burst' = BurstAfter(s, TRUE)
  /\ UNCHANGED <<estimates, txRuns, lastRun, started, allowance, chainBalances, calls, applied, lastCheck>>

\* the tokens the selector lists: every supported token but the one shown on
\* the other side (with an empty search term)
filteredTokens(excludeToken) ==
  {SUPPORTED_TOKENS[i].symbol : i \in 1..Len(SUPPORTED_TOKENS)} \ {excludeToken}

Offered(s, selectingFor) ==
  filteredTokens(IF selectingFor = "input" THEN s.outputToken ELSE s.inputToken)

Selected_NoExchange(s, selectingFor, symbol) ==
  IF selectingFor = "input"
  THEN [s EXCEPT !.inputToken = symbol]
  ELSE [s EXCEPT !.outputToken = symbol]

\* the form after onSelectToken's writes
Selected(s, selectingFor, symbol) ==
  IF selectingFor = "input"
  THEN [s EXCEPT !.outputToken = IF symbol = s.outputToken
                                 THEN s.inputToken ELSE @,
                 !.inputToken = symbol]
  ELSE [s EXCEPT !.inputToken = IF symbol = s.inputToken
                                THEN s.outputToken ELSE @,
                 !.outputToken = symbol]

onSelectToken(selectingFor, symbol) ==
  /\ burst.total < MaxChanges
  /\ LET s == Selected(ui, selectingFor, symbol)
     IN /\ s # ui
        /\ Commit(s, debouncedEstimate, checks)
        /\ burst' = BurstAfter(s, TRUE)
  /\ UNCHANGED <<estimates, txRuns, lastRun, started, allowance, chainBalances, calls, applied, lastCheck>>

\* the debounce window of the last change ends with no timer armed
WindowElapse ==
  /\ burst.open
  /\ debouncedEstimate = {}
  /\ burst' = [burst EXCEPT !.open = FALSE]
  /\ UNCHANGED <<ui, debouncedEstimate, estimates, approvalTimers, checks, txRuns, lastRun, started,
                 allowance, chainBalances, calls, applied, lastCheck>>

\* -------------------------------------------------------------- estimateSwap
\* the direction estimateSwap computes for itself
estimateDirection(toToken) == IF toToken = "VUSD" THEN "toVUSD" ELSE "fromVUSD"

Target(direction) == IF direction = "toVUSD" THEN "minter" ELSE "redeemer"

\* calls keeps, per operation, the token pair of its last contract call and
\* the contract the call addressed
Called(by, fromToken, toToken, direction) ==
  [calls EXCEPT ![by] = [fromToken |-> fromToken, toToken |-> toToken,
                         target |-> Target(direction)]]

EstimationError_KeepsQuote(s, userInitiated) ==
  [s EXCEPT !.toast = "Estimation Error",
            !.loading = IF userInitiated THEN FALSE ELSE @]

EstimationError(s, userInitiated) ==
  [s EXCEPT !.outputAmount = Num(0), !.toast = "Estimation Error",
            !.loading = IF userInitiated THEN FALSE ELSE @]

Observed(e) ==
  [set |-> TRUE, amount |-> e.amount, fromToken |-> e.fromToken, toToken |-> e.toToken,
   curAmount |-> ui.inputAmount, curFrom |-> ui.inputToken, curTo |-> ui.outputToken]

\* the debounce timer t fires: estimateSwap up to its first await (or to its
\* end when parseUnits throws)
DebounceFire(t) ==
  /\ t \in debouncedEstimate
  /\ Len(estimates) < MaxEstimates
  /\ LET closureInputAmount == t.amount
         userInitiated == closureInputAmount = t.amount
         direction == estimateDirection(t.toToken)
         amountIn == parseUnits(t.amount, IF direction = "toVUSD"
                                          THEN getTokenDecimals(t.fromToken)
                                          ELSE Dec18)
         timers == debouncedEstimate \ {t}
     IN /\ burst' = [burst EXCEPT !.open = timers # {},
                                  !.issued = Append(@, t.amount)]
        /\ IF t.amount[1] <= 0
           THEN /\ Commit([ui EXCEPT !.outputAmount = Num(0)], timers, checks)
                /\ UNCHANGED <<estimates, calls>>
           ELSE IF ~amountIn.ok
           THEN /\ Commit(EstimationError(ui, userInitiated), timers, checks)
                /\ UNCHANGED <<estimates, calls>>
           ELSE /\ Commit([ui EXCEPT !.loading = IF userInitiated THEN TRUE ELSE @],
                          timers, checks)
                /\ estimates' = Append(estimates,
                     [amount |-> t.amount, fromToken |-> t.fromToken,
                      toToken |-> t.toToken, amountIn |-> amountIn.v,
                      userInitiated |-> userInitiated, pc |-> "quote"])
                /\ calls' = Called("estimateSwap", t.fromToken, t.toToken, direction)
  /\ UNCHANGED <<txRuns, lastRun, started, allowance, chainBalances, applied, lastCheck>>

\* calculateMintage / redeemable answers (ok) or rejects
EstimateQuote(i, ok) ==
  /\ i \in 1..Len(estimates)
  /\ estimates[i].pc = "quote"
  /\ LET e == estimates[i]
         q == IF estimateDirection(e.toToken) = "toVUSD"
              THEN formatUnits(calculateMintage(e.fromToken, e.amountIn, chainFees.minter), Dec18)
              ELSE formatUnits(redeemable(e.toToken, e.amountIn, chainFees.redeemer),
                               getTokenDecimals(e.toToken))
     IN IF ok
        THEN /\ Commit([ui EXCEPT !.outputAmount = q], debouncedEstimate, checks)
             /\ estimates' = [estimates EXCEPT ![i].pc = "fee"]
             /\ applied' = Observed(e)
        ELSE /\ Commit(EstimationError(ui, e.userInitiated), debouncedEstimate, checks)
             /\ estimates' = RemoveAt(estimates, i)
             /\ UNCHANGED applied
  /\ UNCHANGED <<txRuns, lastRun, started, allowance, chainBalances, calls, burst, lastCheck>>

\* mintingFee / redeemFee answers (ok) or rejects; then finally
EstimateFee(i, ok) ==
  /\ i \in 1..Len(estimates)
  /\ estimates[i].pc = "fee"
  /\ LET e == estimates[i]
         feeRaw == chainFees[Target(estimateDirection(e.toToken))]
     IN IF ok
        THEN /\ Commit([ui EXCEPT !.fee = RDiv(formatUnits(feeRaw, 4), Num(100)),
                                  !.loading = IF e.userInitiated THEN FALSE ELSE @],
                       debouncedEstimate, checks)
             /\ applied' = Observed(e)
        ELSE /\ Commit(EstimationError(ui, e.userInitiated), debouncedEstimate, checks)
             /\ UNCHANGED applied
  /\ estimates' = RemoveAt(estimates, i)
  /\ UNCHANGED <<txRuns, lastRun, started, allowance, chainBalances, calls, burst, lastCheck>>

\* -------------------------------------------- estimateSwap called on the hook
\* a JavaScript number that is not a number
NaN == <<0, 0>>

\* !amount || amount <= 0
InvalidAmount(amount) == amount = NaN \/ amount[1] = 0 \/ amount[1] < 0

NoEstimateCall == [called |-> FALSE, amount |-> Num(0), issued |-> FALSE]

estimateSwap_NoGuard(amount, fromToken, toToken) ==
  /\ Len(estimates) < MaxEstimates
  /\ LET userInitiated == ui.inputAmount = amount
         direction == estimateDirection(toToken)
         amountIn == parseUnits(amount, IF direction = "toVUSD"
                                        THEN getTokenDecimals(fromToken)
                                        ELSE Dec18)
     IN IF amount = NaN \/ ~amountIn.ok
        THEN /\ Commit(EstimationError(ui, userInitiated), debouncedEstimate, checks)
             /\ lastEstimate' = [called |-> TRUE, amount |-> amount, issued |-> FALSE]
             /\ UNCHANGED <<estimates, calls>>
        ELSE /\ Commit([ui EXCEPT !.loading = IF userInitiated THEN TRUE ELSE @],
                       debouncedEstimate, checks)
             /\ estimates' = Append(estimates,
                  [amount |-> amount, fromToken |-> fromToken, toToken |-> toToken,
                   amountIn |-> amountIn.v, userInitiated |-> userInitiated,
                   pc |-> "quote"])
             /\ calls' = Called("estimateSwap", fromToken, toToken, direction)
             /\ lastEstimate' = [called |-> TRUE, amount |-> amount, issued |-> TRUE]
  /\ UNCHANGED <<txRuns, lastRun, started, allowance, chainBalances, applied, lastCheck, burst>>

\* estimateSwap(amount, fromToken, toToken) up to its first await, called by
\* the render whose state is ui
estimateSwap(amount, fromToken, toToken) ==
  /\ Len(estimates) < MaxEstimates
  /\ LET userInitiated == ui.inputAmount = amount
         direction == estimateDirection(toToken)
         amountIn == parseUnits(amount, IF direction = "toVUSD"
                                        THEN getTokenDecimals(fromToken)
                                        ELSE Dec18)
     IN IF InvalidAmount(amount)
        THEN /\ Commit([ui EXCEPT !.outputAmount = Num(0)], debouncedEstimate, checks)
             /\ lastEstimate' = [called |-> TRUE, amount |-> amount, issued |-> FALSE]
             /\ UNCHANGED <<estimates, calls>>
        ELSE IF ~amountIn.ok
        THEN /\ Commit(EstimationError(ui, userInitiated), debouncedEstimate, checks)
             /\ lastEstimate' = [called |-> TRUE, amount |-> amount, issued |-> FALSE]
             /\ UNCHANGED <<estimates, calls>>
        ELSE /\ Commit([ui EXCEPT !.loading = IF userInitiated THEN TRUE ELSE @],
                       debouncedEstimate, checks)
             /\ estimates' = Append(estimates,
                  [amount |-> amount, fromToken |-> fromToken, toToken |-> toToken,
                   amountIn |-> amountIn.v, userInitiated |-> userInitiated,
                   pc |-> "quote"])
             /\ calls' = Called("estimateSwap", fromToken, toToken, direction)
             /\ lastEstimate' = [called |-> TRUE, amount |-> amount, issued |-> TRUE]
  /\ UNCHANGED <<txRuns, lastRun, started, allowance, chainBalances, applied, lastCheck, burst>>

\* the amounts a caller may pass: zero, negative, not a number, positive
EstimateArguments == {Num(0), Num(0 - 1), NaN, Num(1), Num(2)}

\* the fee line of the swap card, as a fraction: '0.01%' or '0.1%'
FeeShown(s) == IF s.outputToken = "VUSD" THEN Rat(1, 10000) ELSE Rat(1, 1000)

\* the fees the contracts may answer
PossibleFees == {DeployedFees, [minter |-> 5, redeemer |-> 30]}

\* ------------------------------------------------ the approval-check effect
MaxChecks == 2

\* the direction runApprovalCheck computes for itself
approvalCheckDirection(currentOutputToken) ==
  IF currentOutputToken = "VUSD" THEN "toVUSD" ELSE "fromVUSD"

\* the allowance a direction consults: input token -> Minter, VUSD -> Redeemer
AllowKey(direction, inputToken) ==
  IF direction = "toVUSD" THEN <<inputToken, "minter">> ELSE <<"VUSD", "redeemer">>

AmountDecimals(direction, inputToken) ==
  IF direction = "toVUSD" THEN getTokenDecimals(inputToken) ELSE Dec18

\* the finally block of runApprovalCheck, after the updates in s
CheckFinally(s, c) == IF c.isActive THEN [s EXCEPT !.checkingApproval = FALSE] ELSE s

\* one of the effect's timers fires: runApprovalCheck up to its first await
ApprovalTimerFire(kind) ==
  /\ kind \in approvalTimers
  /\ IF ui.checkingApproval
     THEN /\ approvalTimers' = approvalTimers \ {kind}
          /\ UNCHANGED <<ui, debouncedEstimate, checks>>
     ELSE /\ Len(checks) < MaxChecks
          /\ Commit([ui EXCEPT !.checkingApproval = TRUE], debouncedEstimate,
                    Append(checks, [inputAmount |-> ui.inputAmount,
                                    inputToken |-> ui.inputToken,
                                    outputToken |-> ui.outputToken,
                                    currentInputAmount |-> ui.inputAmount,
                                    currentInputToken |-> ui.inputToken,
                                    currentOutputToken |-> ui.outputToken,
                                    isActive |-> TRUE, amount |-> 0, pc |-> "signer"]))
  /\ UNCHANGED <<estimates, txRuns, lastRun, started, allowance, chainBalances, calls, applied, lastCheck, burst>>

\* getConnectedContracts answers (ok) or rejects
CheckSigner(i, ok) ==
  /\ i \in 1..Len(checks)
  /\ checks[i].pc = "signer"
  /\ LET c == checks[i]
         direction == approvalCheckDirection(c.currentOutputToken)
         amount == parseUnits(c.currentInputAmount,
                              AmountDecimals(direction, c.currentInputToken))
     IN IF ok /\ amount.ok
        THEN /\ Commit(ui, debouncedEstimate,
                       [checks EXCEPT ![i].pc = "allowance", ![i].amount = amount.v])
             /\ calls' = Called("approvalCheck", c.currentInputToken,
                                 c.currentOutputToken, direction)
        ELSE /\ Commit(CheckFinally(ui, c), debouncedEstimate, RemoveAt(checks, i))
             /\ UNCHANGED calls
  /\ UNCHANGED <<estimates, txRuns, lastRun, started, allowance, chainBalances, applied, lastCheck, burst>>

\* what an allowance response found: the inputs the check was computed for,
\* the form's inputs when it arrived, and whether needsApproval was written
CheckObserved(c, written) ==
  [arrived |-> TRUE, written |-> written, amount |-> c.currentInputAmount,
   fromToken |-> c.currentInputToken, toToken |-> c.currentOutputToken,
   curAmount |-> ui.inputAmount, curFrom |-> ui.inputToken, curTo |-> ui.outputToken]

CheckAllowance_IgnoresIsActive(i, ok) ==
  /\ i \in 1..Len(checks)
  /\ checks[i].pc = "allowance"
  /\ LET c == checks[i]
         direction == approvalCheckDirection(c.currentOutputToken)
         isApprovalRequired == allowance[AllowKey(direction, c.currentInputToken)] < c.amount
         inputsMatch == /\ c.currentInputAmount = c.inputAmount
                        /\ c.currentInputToken = c.inputToken
                        /\ c.currentOutputToken = c.outputToken
         written == ok /\ inputsMatch
         s == IF written THEN [ui EXCEPT !.needsApproval = isApprovalRequired]
              ELSE ui
     IN /\ Commit(CheckFinally(s, c), debouncedEstimate, RemoveAt(checks, i))
        /\ lastCheck' = IF ok THEN CheckObserved(c, written) ELSE lastCheck
  /\ UNCHANGED <<estimates, txRuns, lastRun, started, allowance, chainBalances, calls, applied, burst>>

\* allowance answers (ok) or rejects; the inputs compared with the captured
\* ones are those of the closure that captured them (c.inputAmount,
\* c.inputToken, c.outputToken), not those of the latest render
CheckAllowance(i, ok) ==
  /\ i \in 1..Len(checks)
  /\ checks[i].pc = "allowance"
  /\ LET c == checks[i]
         direction == approvalCheckDirection(c.currentOutputToken)
         isApprovalRequired == allowance[AllowKey(direction, c.currentInputToken)] < c.amount
         inputsMatch == /\ c.currentInputAmount = c.inputAmount
                        /\ c.currentInputToken = c.inputToken
                        /\ c.currentOutputToken = c.outputToken
         written == ok /\ c.isActive /\ inputsMatch
         s == IF written THEN [ui EXCEPT !.needsApproval = isApprovalRequired]
              ELSE ui
     IN /\ Commit(CheckFinally(s, c), debouncedEstimate, RemoveAt(checks, i))
        /\ lastCheck' = IF ok THEN CheckObserved(c, written) ELSE lastCheck
  /\ UNCHANGED <<estimates, txRuns, lastRun, started, allowance, chainBalances, calls, applied, burst>>

\* ------------------------------------------- executeSwap and approveTokens
MaxStarted == 1

SwapOp(direction) == IF direction = "toVUSD" THEN "mint" ELSE "redeem"

\* a call of executeSwap (kind "swap") or approveTokens (kind "approve") by the
\* render whose state is ui, up to its first await
NewRun(kind, viaHandler) ==
  [kind |-> kind, viaHandler |-> viaHandler, inputToken |-> ui.inputToken,
   outputToken |-> ui.outputToken, inputAmount |-> ui.inputAmount,
   direction |-> getSwapDirection(ui.outputToken), amount |-> 0,
   allowanceRead |-> Fail, ops |-> <<>>, pc |-> "signer"]

Starts(r) ==
  /\ txRuns' = Append(txRuns, r)
  /\ started' = started + 1
  /\ UNCHANGED lastRun

Steps(i, r) == txRuns' = [txRuns EXCEPT ![i] = r] /\ UNCHANGED <<lastRun, started>>

Ends(i, r) == txRuns' = RemoveAt(txRuns, i) /\ lastRun' = r /\ UNCHANGED started

RunEnd_LoadingStaysOnFailure(s, r, ok) ==
  IF r.kind = "swap" /\ ~r.viaHandler
  THEN [s EXCEPT !.loading = IF ok THEN FALSE ELSE @]
  ELSE IF r.kind = "swap"
  THEN [s EXCEPT !.loading = IF ok THEN FALSE ELSE @,
                 !.txStatus = IF ok THEN "success" ELSE "error",
                 !.toast = IF ok THEN @ ELSE "Transaction Failed"]
  ELSE IF r.viaHandler
  THEN [s EXCEPT !.loading = IF ok THEN FALSE ELSE @, !.needsApproval = FALSE, !.txStatus = "none",
                 !.toast = IF ok THEN "Approval Successful" ELSE "Approval Failed"]
  ELSE [s EXCEPT !.loading = IF ok THEN FALSE ELSE @, !.needsApproval = FALSE]

\* the function's finally block and what handleButtonClick does with the outcome
RunEnd(s, r, ok) ==
  IF r.kind = "swap" /\ ~r.viaHandler
  THEN [s EXCEPT !.loading = FALSE]
  ELSE IF r.kind = "swap"
  THEN [s EXCEPT !.loading = FALSE,
                 !.txStatus = IF ok THEN "success" ELSE "error",
                 !.toast = IF ok THEN @ ELSE "Transaction Failed"]
  ELSE IF r.viaHandler
  THEN [s EXCEPT !.loading = FALSE, !.needsApproval = FALSE, !.txStatus = "none",
                 !.toast = IF ok THEN "Approval Successful" ELSE "Approval Failed"]
  ELSE [s EXCEPT !.loading = FALSE, !.needsApproval = FALSE]

Fails_DropsBalances(i, op) ==
  /\ Commit(RunEnd([ui EXCEPT !.balances = [t \in Symbols |-> Num(0)]], txRuns[i], FALSE),
            debouncedEstimate, checks)
  /\ Ends(i, [txRuns[i] EXCEPT !.pc = "failed", !.ops = Append(@, op)])

\* a rejected await: catch rethrows, finally, the handler's catch
Fails(i, op) ==
  /\ Commit(RunEnd(ui, txRuns[i], FALSE), debouncedEstimate, checks)
  /\ Ends(i, [txRuns[i] EXCEPT !.pc = "failed", !.ops = Append(@, op)])

handleButtonClick ==
  /\ ~(ui.buttonState.disabled \/ ui.loading)
  /\ ui.isConnected
  /\ started < MaxStarted
  /\ IF ui.needsApproval
     THEN /\ Commit([ui EXCEPT !.txStatus = "pending", !.loading = TRUE],
                    debouncedEstimate, checks)
          /\ Starts(NewRun("approve", TRUE))
     ELSE IF ui.inputAmount[1] <= 0
     THEN /\ Commit([ui EXCEPT !.txStatus = "error", !.toast = "Transaction Failed"],
                    debouncedEstimate, checks)
          /\ UNCHANGED <<txRuns, lastRun, started>>
     ELSE /\ Commit([ui EXCEPT !.txStatus = "pending", !.loading = TRUE],
                    debouncedEstimate, checks)
          /\ Starts(NewRun("swap", TRUE))
  /\ UNCHANGED <<estimates, allowance, chainBalances, calls, applied, lastCheck, burst>>

\* the status dialog is closed ("Close", or "Close and wait" while pending)
closeTransactionModal ==
  /\ ui.txStatus # "none"
  /\ Commit([ui EXCEPT !.txStatus = "none"], debouncedEstimate, checks)
  /\ UNCHANGED <<estimates, txRuns, lastRun, started, allowance, chainBalances, calls,
                 applied, lastCheck, burst>>

\* executeSwap as an operation of the hook: its two guards throw before
\* anything is set or requested
executeSwap_LoadingBeforeGuards ==
  /\ started < MaxStarted
  /\ IF ~ui.isConnected
     THEN /\ lastRun' = [NoRun EXCEPT !.pc = "rejected", !.ops = <<"Wallet not connected">>]
          /\ Commit([ui EXCEPT !.loading = TRUE], debouncedEstimate, checks)
          /\ UNCHANGED <<txRuns, started>>
     ELSE IF ui.inputAmount[1] <= 0
     THEN /\ lastRun' = [NoRun EXCEPT !.pc = "rejected", !.ops = <<"Invalid amount">>]
          /\ Commit([ui EXCEPT !.loading = TRUE], debouncedEstimate, checks)
          /\ UNCHANGED <<txRuns, started>>
     ELSE /\ Commit([ui EXCEPT !.loading = TRUE], debouncedEstimate, checks)
          /\ Starts(NewRun("swap", FALSE))
  /\ UNCHANGED <<estimates, allowance, chainBalances, calls, applied, lastCheck, burst>>

executeSwap ==
  /\ started < MaxStarted
  /\ IF ~ui.isConnected
     THEN /\ lastRun' = [NoRun EXCEPT !.pc = "rejected", !.ops = <<"Wallet not connected">>]
          /\ UNCHANGED <<ui, debouncedEstimate, approvalTimers, checks, txRuns, started>>
     ELSE IF ui.inputAmount[1] <= 0
     THEN /\ lastRun' = [NoRun EXCEPT !.pc = "rejected", !.ops = <<"Invalid amount">>]
          /\ UNCHANGED <<ui, debouncedEstimate, approvalTimers, checks, txRuns, started>>
     ELSE /\ Commit([ui EXCEPT !.loading = TRUE], debouncedEstimate, checks)
          /\ Starts(NewRun("swap", FALSE))
  /\ UNCHANGED <<estimates, allowance, chainBalances, calls, applied, lastCheck, burst>>

\* the wallet disconnects (useDisconnect of wagmi): useAccount reports
\* isConnected = false and no address
disconnect ==
  /\ ui.isConnected
  /\ Commit([ui EXCEPT !.isConnected = FALSE], debouncedEstimate, checks)
  /\ address' = "none"
  /\ UNCHANGED <<now, balanceLastUpdated, balanceFetches, lastCall>>
  /\ UNCHANGED <<estimates, txRuns, lastRun, started, allowance, chainBalances, calls,
                 applied, lastCheck, burst>>

\* approveTokens as an operation of the hook; SwapInterface reaches it through
\* handleButtonClick when needsApproval is set
approveTokens ==
  /\ ui.isConnected
  /\ started < MaxStarted
  /\ Commit([ui EXCEPT !.loading = TRUE], debouncedEstimate, checks)
  /\ Starts(NewRun("approve", FALSE))
  /\ UNCHANGED <<estimates, allowance, chainBalances, calls, applied, lastCheck, burst>>

\* getConnectedContracts answers (ok) or rejects; executeSwap goes on to its
\* allowance read, approveTokens to its approve
TxSigner(i, ok) ==
  /\ i \in 1..Len(txRuns)
  /\ txRuns[i].pc = "signer"
  /\ LET r == txRuns[i]
         amount == parseUnits(r.inputAmount, AmountDecimals(r.direction, r.inputToken))
         call == Called(IF r.kind = "swap" THEN "executeSwap" ELSE "approveTokens",
                        r.inputToken, r.outputToken, r.direction)
     IN IF ~ok \/ (r.kind = "swap" /\ ~amount.ok)
        THEN Fails(i, "signerFailed") /\ UNCHANGED calls
        ELSE /\ Commit(ui, debouncedEstimate, checks)
             /\ calls' = call
             /\ IF r.kind = "swap"
                THEN Steps(i, [r EXCEPT !.pc = "allowance", !.amount = amount.v,
                                        !.ops = Append(@, "allowance")])
                ELSE Steps(i, [r EXCEPT !.pc = "approve", !.ops = Append(@, "approve")])
  /\ UNCHANGED <<estimates, allowance, chainBalances, applied, lastCheck, burst>>

\* executeSwap's allowance read answers (ok) or rejects
TxAllowance(i, ok) ==
  /\ i \in 1..Len(txRuns)
  /\ txRuns[i].pc = "allowance"
  /\ LET r == txRuns[i]
         value == allowance[AllowKey(r.direction, r.inputToken)]
     IN IF ~ok THEN Fails(i, "allowanceFailed")
        ELSE /\ Commit(ui, debouncedEstimate, checks)
             /\ IF value < r.amount
                THEN Steps(i, [r EXCEPT !.pc = "approve", !.allowanceRead = Ok(value),
                                        !.ops = Append(@, "approve")])
                ELSE Steps(i, [r EXCEPT !.pc = "swap", !.allowanceRead = Ok(value),
                                        !.ops = Append(@, SwapOp(r.direction))])
  /\ UNCHANGED <<estimates, allowance, chainBalances, calls, applied, lastCheck, burst>>

TxApprove_NoWait(i, ok) ==
  /\ i \in 1..Len(txRuns)
  /\ txRuns[i].pc = "approve"
  /\ LET r == txRuns[i]
     IN IF ~ok THEN Fails(i, "approveFailed")
        ELSE /\ Commit(ui, debouncedEstimate, checks)
             /\ IF r.kind = "swap"
                THEN Steps(i, [r EXCEPT !.pc = "swap",
                                        !.ops = Append(@, SwapOp(r.direction))])
                ELSE Steps(i, [r EXCEPT !.pc = "approveWait"])
  /\ UNCHANGED <<estimates, allowance, chainBalances, calls, applied, lastCheck, burst>>

\* the wallet submits the approve transaction (ok) or the user rejects it
TxApprove(i, ok) ==
  /\ i \in 1..Len(txRuns)
  /\ txRuns[i].pc = "approve"
  /\ LET r == txRuns[i]
     IN IF ~ok THEN Fails(i, "approveFailed")
        ELSE /\ Commit(ui, debouncedEstimate, checks)
             /\ Steps(i, [r EXCEPT !.pc = "approveWait"])
  /\ UNCHANGED <<estimates, allowance, chainBalances, calls, applied, lastCheck, burst>>

TxApproveWait_ApprovesAmount(i, ok) ==
  /\ i \in 1..Len(txRuns)
  /\ txRuns[i].pc = "approveWait"
  /\ LET r == txRuns[i]
     IN IF ~ok
        THEN Fails(i, "approveFailed") /\ UNCHANGED allowance
        ELSE /\ allowance' = [allowance EXCEPT ![AllowKey(r.direction, r.inputToken)] = r.amount]
             /\ IF r.kind = "swap"
                THEN /\ Commit(ui, debouncedEstimate, checks)
                     /\ Steps(i, [r EXCEPT !.pc = "swap",
                                    !.ops = @ \o <<"approveConfirmed", SwapOp(r.direction)>>])
                ELSE /\ Commit(RunEnd(ui, r, TRUE), debouncedEstimate, checks)
                     /\ Ends(i, [r EXCEPT !.pc = "done",
                                          !.ops = Append(@, "approveConfirmed")])
  /\ UNCHANGED <<estimates, chainBalances, calls, applied, lastCheck, burst>>

\* the approve transaction confirms (ok) or reverts
TxApproveWait(i, ok) ==
  /\ i \in 1..Len(txRuns)
  /\ txRuns[i].pc = "approveWait"
  /\ LET r == txRuns[i]
     IN IF ~ok
        THEN Fails(i, "approveFailed") /\ UNCHANGED allowance
        ELSE /\ allowance' = [allowance EXCEPT ![AllowKey(r.direction, r.inputToken)] = MaxUint256]
             /\ IF r.kind = "swap"
                THEN /\ Commit(ui, debouncedEstimate, checks)
                     /\ Steps(i, [r EXCEPT !.pc = "swap",
                                    !.ops = @ \o <<"approveConfirmed", SwapOp(r.direction)>>])
                ELSE /\ Commit(RunEnd(ui, r, TRUE), debouncedEstimate, checks)
                     /\ Ends(i, [r EXCEPT !.pc = "done",
                                          !.ops = Append(@, "approveConfirmed")])
  /\ UNCHANGED <<estimates, chainBalances, calls, applied, lastCheck, burst>>

\* what the mint / redeem transaction spends, and whether the chain accepts it
Spent(r) == IF r.direction = "toVUSD" THEN r.inputToken ELSE "VUSD"

Received(r) ==
  IF r.direction = "toVUSD" THEN calculateMintage(r.inputToken, r.amount, chainFees.minter)
  ELSE redeemable(r.outputToken, r.amount, chainFees.redeemer)

ChainAccepts(r) ==
  /\ allowance[AllowKey(r.direction, r.inputToken)] >= r.amount
  /\ chainBalances[Spent(r)] >= r.amount

\* the wallet submits the mint / redeem transaction (ok) or it is rejected
TxSwap(i, ok) ==
  /\ i \in 1..Len(txRuns)
  /\ txRuns[i].pc = "swap"
  /\ ok => ChainAccepts(txRuns[i])
  /\ IF ~ok THEN Fails(i, "swapFailed")
     ELSE /\ Commit(ui, debouncedEstimate, checks)
          /\ Steps(i, [txRuns[i] EXCEPT !.pc = "swapWait"])
  /\ UNCHANGED <<estimates, allowance, chainBalances, calls, applied, lastCheck, burst>>

\* the mint / redeem transaction confirms (ok) or reverts
TxSwapWait_IgnoresRevert(i, ok) ==
  /\ i \in 1..Len(txRuns)
  /\ txRuns[i].pc = "swapWait"
  /\ ok => ChainAccepts(txRuns[i])
  /\ LET r == txRuns[i]
         key == AllowKey(r.direction, r.inputToken)
         received == IF r.direction = "toVUSD" THEN "VUSD" ELSE r.outputToken
     IN IF ~ok
        THEN /\ Commit(ui, debouncedEstimate, checks)
             /\ Steps(i, [r EXCEPT !.pc = "balances", !.ops = Append(@, "swapFailed")])
             /\ UNCHANGED <<allowance, chainBalances>>
        ELSE /\ Commit(ui, debouncedEstimate, checks)
             /\ Steps(i, [r EXCEPT !.pc = "balances",
                                     !.ops = @ \o <<"confirmed", "fetchBalances(true)">>])
             /\ allowance' = [allowance EXCEPT ![key] =
                                IF @ = MaxUint256 THEN @ ELSE @ - r.amount]
             /\ chainBalances' = [t \in Symbols |->
                                    chainBalances[t]
                                    - (IF t = Spent(r) THEN r.amount ELSE 0)
                                    + (IF t = received THEN Received(r) ELSE 0)]
  /\ UNCHANGED <<estimates, calls, applied, lastCheck, burst>>

TxSwapWait(i, ok) ==
  /\ i \in 1..Len(txRuns)
  /\ txRuns[i].pc = "swapWait"
  /\ ok => ChainAccepts(txRuns[i])
  /\ LET r == txRuns[i]
         key == AllowKey(r.direction, r.inputToken)
         received == IF r.direction = "toVUSD" THEN "VUSD" ELSE r.outputToken
     IN IF ~ok THEN Fails(i, "swapFailed") /\ UNCHANGED <<allowance, chainBalances>>
        ELSE /\ Commit(ui, debouncedEstimate, checks)
             /\ Steps(i, [r EXCEPT !.pc = "balances",
                                     !.ops = @ \o <<"confirmed", "fetchBalances(true)">>])
             /\ allowance' = [allowance EXCEPT ![key] =
                                IF @ = MaxUint256 THEN @ ELSE @ - r.amount]
             /\ chainBalances' = [t \in Symbols |->
                                    chainBalances[t]
                                    - (IF t = Spent(r) THEN r.amount ELSE 0)
                                    + (IF t = received THEN Received(r) ELSE 0)]
  /\ UNCHANGED <<estimates, calls, applied, lastCheck, burst>>

\* fetchBalances(true) completes (ok) or swallows a read error; executeSwap
\* returns the transaction either way
TxBalances(i, ok) ==
  /\ i \in 1..Len(txRuns)
  /\ txRuns[i].pc = "balances"
  /\ LET s == IF ok
              THEN [ui EXCEPT !.balances =
                      [t \in Symbols |-> formatUnits(chainBalances[t], getTokenDecimals(t))]]
              ELSE ui
     IN Commit(RunEnd(s, txRuns[i], TRUE), debouncedEstimate, checks)
  /\ Ends(i, [txRuns[i] EXCEPT !.pc = "done"])
  /\ balanceLastUpdated' = IF ok THEN now ELSE balanceLastUpdated
  /\ UNCHANGED <<address, now, balanceFetches, lastCall>>
  /\ UNCHANGED <<estimates, allowance, chainBalances, calls, applied, lastCheck, burst>>

\* ------------------------------------------------ fetchBalances and its cache
BALANCE_CACHE_DURATION == 60 * 1000

\* the clock advances in steps of 30 s from the time the page was mounted
Tick == 30 * 1000
MountTime == 2 * BALANCE_CACHE_DURATION
MaxTicks == 3
MaxBalanceFetches == 2

Accounts == {"A", "B"}

\* what balanceOf answers for an account
AccountBalances(a) ==
  [t \in Symbols |-> (IF a = "A" THEN ExecBalance ELSE ExecBalance + 1)
                     * Pow10(getTokenDecimals(t))]

FormattedBalances(a) ==
  [t \in Symbols |-> formatUnits(AccountBalances(a)[t], getTokenDecimals(t))]

NoFetchCall ==
  [made |-> FALSE, forceRefresh |-> FALSE, address |-> "none", at |-> 0,
   lastUpdated |-> 0, issued |-> FALSE]

\* the wallet, the clock and the balance cache of a page whose wallet is
\* account a and whose balances were last fetched at time u
BalancesInit(a, u) ==
  /\ address = a
  /\ now = MountTime
  /\ balanceLastUpdated = u
  /\ balanceFetches = <<>>
  /\ lastCall = NoFetchCall

\* fetchBalances up to its try block: does the call go on to read the chain
IssuesRead_IgnoresCache(forceRefresh, connected, lastUpdated) ==
  connected

IssuesRead(forceRefresh, connected, lastUpdated) ==
  /\ connected
  /\ forceRefresh \/ now - lastUpdated >= BALANCE_CACHE_DURATION

\* a call of fetchBalances by a render whose account is a and whose
\* balanceLastUpdated is lastUpdated, with the reads fs in flight
FetchCall(forceRefresh, a, lastUpdated, fs) ==
  LET issue == IssuesRead(forceRefresh, a # "none", lastUpdated)
  IN /\ balanceFetches' = IF issue
                          THEN Append(fs, [address |-> a, now |-> now,
                                           forceRefresh |-> forceRefresh])
                          ELSE fs
     /\ lastCall' = [made |-> TRUE, forceRefresh |-> forceRefresh, address |-> a,
                     at |-> now, lastUpdated |-> lastUpdated, issued |-> issue]

\* refreshBalances called on the hook, or the balance effect of a render
fetchBalances(forceRefresh) ==
  /\ Len(balanceFetches) < MaxBalanceFetches
  /\ FetchCall(forceRefresh, address, balanceLastUpdated, balanceFetches)
  /\ UNCHANGED <<address, now, balanceLastUpdated, swapvars>>

\* newBalances after the balanceOf reads of the first k supported tokens
ReadBalances(balances, a, k) ==
  [t \in Symbols |-> IF \E j \in 1..k : SUPPORTED_TOKENS[j].symbol = t
                     THEN FormattedBalances(a)[t]
                     ELSE balances[t]]

\* which read rejects: none (0), or that of the failAt-th supported token
ReadFailures == 0..Len(SUPPORTED_TOKENS)

BalanceRead_PublishesPartial(i, failAt) ==
  /\ i \in 1..Len(balanceFetches)
  /\ LET f == balanceFetches[i]
         rest == RemoveAt(balanceFetches, i)
         s == [ui EXCEPT !.balances = ReadBalances(ui.balances, f.address,
                                                   Len(SUPPORTED_TOKENS))]
     IN IF failAt = 0
        THEN /\ Commit(s, debouncedEstimate, checks)
             /\ balanceLastUpdated' = f.now
             /\ IF (s.balances # ui.balances \/ f.now # balanceLastUpdated)
                   /\ ui.isConnected
                THEN FetchCall(FALSE, address, f.now, rest)
                ELSE balanceFetches' = rest /\ UNCHANGED lastCall
        ELSE /\ balanceFetches' = rest
             /\ Commit([ui EXCEPT !.balances = ReadBalances(ui.balances, f.address,
                                                            failAt - 1)],
                       debouncedEstimate, checks)
             /\ UNCHANGED <<balanceLastUpdated, lastCall>>
  /\ UNCHANGED <<address, now, estimates, txRuns, lastRun, started, allowance,
                 chainBalances, calls, applied, lastCheck, burst>>

\* the balanceOf reads of call i, one token after the other, all answer
\* (failAt = 0) or the failAt-th rejects; newBalances is local until
\* setBalances. New balances or a new timestamp give fetchBalances a new
\* identity, and the balance effect of the render calls it again
BalanceRead(i, failAt) ==
  /\ i \in 1..Len(balanceFetches)
  /\ LET f == balanceFetches[i]
         rest == RemoveAt(balanceFetches, i)
         s == [ui EXCEPT !.balances = ReadBalances(ui.balances, f.address,
                                                   Len(SUPPORTED_TOKENS))]
     IN IF failAt = 0
        THEN /\ Commit(s, debouncedEstimate, checks)
             /\ balanceLastUpdated' = f.now
             /\ IF (s.balances # ui.balances \/ f.now # balanceLastUpdated)
                   /\ ui.isConnected
                THEN FetchCall(FALSE, address, f.now, rest)
                ELSE balanceFetches' = rest /\ UNCHANGED lastCall
        ELSE /\ balanceFetches' = rest
             /\ UNCHANGED <<ui, debouncedEstimate, approvalTimers, checks,
                            balanceLastUpdated, lastCall>>
  /\ UNCHANGED <<address, now, estimates, txRuns, lastRun, started, allowance,
                 chainBalances, calls, applied, lastCheck, burst>>

\* the wallet switches to account a: useAccount reports the new address, the
\* hook renders, and the balance effect calls the new fetchBalances
accountsChanged(a) ==
  /\ a \in Accounts \ {address}
  /\ address # "none"
  /\ Len(balanceFetches) < MaxBalanceFetches
  /\ address' = a
  /\ chainBalances' = AccountBalances(a)
  /\ FetchCall(FALSE, a, balanceLastUpdated, balanceFetches)
  /\ UNCHANGED <<now, balanceLastUpdated, ui, debouncedEstimate, estimates,
                 approvalTimers, checks, txRuns, lastRun, started, allowance,
                 calls, applied, lastCheck, burst>>

\* 30 s pass
TimePasses ==
  /\ now < MountTime + MaxTicks * Tick
  /\ now' = now + Tick
  /\ UNCHANGED <<address, balanceLastUpdated, balanceFetches, lastCall, swapvars>>

\* ------------------------------------ valueLpTokenAsset on its own (inputs)
LpAddresses == {Addr(id, cs) : id \in {"VUSD", "USDC", "USDT", "DAI", "WETH"},
                               cs \in {"lower", "mixed"}}

LpInputs ==
  {i \in [hasFns : BOOLEAN, ok : BOOLEAN,
          tokenBalance : {1 * Pow10(Dec18), 2 * Pow10(Dec18), 3 * Pow10(Dec18)},
          totalSupply : {3 * Pow10(Dec18), 4 * Pow10(Dec18)},
          reserve0 : {0, 5 * Pow10(Dec6), 7 * Pow10(Dec18)},
          reserve1 : {0, 5 * Pow10(Dec6), 7 * Pow10(Dec18)},
          token0 : LpAddresses, token1 : LpAddresses,
          ethPrice : {2000, 3500}] :
     i.token0.id # i.token1.id}

NoLpOut == [done |-> FALSE, value |-> Num(0), balance |-> Num(0)]

LpFrozen ==
  /\ lpIn = CHOOSE i \in LpInputs : TRUE
  /\ lpOut = NoLpOut

\* one call of valueLpTokenAsset on the reads lpIn
ValueLp ==
  /\ ~lpOut.done
  /\ LET r == valueLpTokenAsset(lpIn.hasFns,
                [ok |-> lpIn.ok, totalSupply |-> lpIn.totalSupply,
                 reserve0 |-> lpIn.reserve0, reserve1 |-> lpIn.reserve1,
                 token0 |-> lpIn.token0, token1 |-> lpIn.token1],
                lpIn.tokenBalance, lpIn.ethPrice, Dec18)
     IN lpOut' = [done |-> TRUE, value |-> r.value, balance |-> r.balance]
  /\ UNCHANGED lpIn

\* --------------------------------------------------------- specifications
InitLp ==
  /\ lpIn \in LpInputs
  /\ lpOut = NoLpOut
  /\ TreasuryInit
  /\ devMode = FALSE
  /\ SwapInit
  /\ BalancesInit("none", 0)
  /\ chainFees = DeployedFees
  /\ lastEstimate = NoEstimateCall

NextLp == ValueLp /\ UNCHANGED <<tvars, swapvars, balvars, chainvars, obsvars>>

SpecLp == InitLp /\ [][NextLp]_vars

InitTreasury ==
  /\ TreasuryInit
  /\ LpFrozen
  /\ SwapInit
  /\ BalancesInit("none", 0)
  /\ chainFees = DeployedFees
  /\ lastEstimate = NoEstimateCall

NextTreasury ==
  \/ \E forceRefresh \in BOOLEAN : FetchStart(forceRefresh) /\ UNCHANGED <<lpvars, swapvars, balvars, chainvars, obsvars>>
  \/ \E seq \in 1..MaxFetches : FetchFail(seq) /\ UNCHANGED <<lpvars, swapvars, balvars, chainvars, obsvars>>
  \/ \E seq \in 1..MaxFetches : FetchPublish(seq) /\ UNCHANGED <<lpvars, swapvars, balvars, chainvars, obsvars>>

SpecTreasury == InitTreasury /\ [][NextTreasury]_vars

\* quoting with no wallet connected: typing, token selection, debounced estimates
InitQuote ==
  /\ SwapInit
  /\ TreasuryInit
  /\ devMode = FALSE
  /\ LpFrozen
  /\ BalancesInit("none", 0)
  /\ chainFees = DeployedFees
  /\ lastEstimate = NoEstimateCall

NextQuote ==
  \/ \E value \in TypedValues : handleInputChange(value) /\ UNCHANGED <<tvars, lpvars, balvars, chainvars, obsvars>>
  \/ switchTokens /\ UNCHANGED <<tvars, lpvars, balvars, chainvars, obsvars>>
  \/ \E selectingFor \in {"input", "output"} : \E symbol \in Offered(ui, selectingFor) :
       onSelectToken(selectingFor, symbol) /\ UNCHANGED <<tvars, lpvars, balvars, chainvars, obsvars>>
  \/ WindowElapse /\ UNCHANGED <<tvars, lpvars, balvars, chainvars, obsvars>>
  \/ \E t \in debouncedEstimate : DebounceFire(t) /\ UNCHANGED <<tvars, lpvars, balvars, chainvars, obsvars>>
  \/ \E i \in 1..MaxEstimates : \E ok \in BOOLEAN :
       EstimateQuote(i, ok) /\ UNCHANGED <<tvars, lpvars, balvars, chainvars, obsvars>>
  \/ \E i \in 1..MaxEstimates : \E ok \in BOOLEAN :
       EstimateFee(i, ok) /\ UNCHANGED <<tvars, lpvars, balvars, chainvars, obsvars>>

SpecQuote == InitQuote /\ [][NextQuote]_vars

\* a connected wallet and a filled form: the state right after an amount was
\* typed for a chosen token pair, with the allowances the account may have
ExecUi(inTok, outTok, amount) ==
  LET s == [InitialUi EXCEPT !.isConnected = TRUE, !.inputToken = inTok,
                             !.outputToken = outTok, !.inputAmount = amount,
                             !.balances = [t \in Symbols |-> Num(ExecBalance)]]
  IN [s EXCEPT !.buttonState = ComputeButton(s)]

InitExec ==
  /\ \E inTok \in Symbols : \E outTok \in Symbols \ {inTok} :
     \E amount \in {Num(1), Num(2)} :
       /\ ui = ExecUi(inTok, outTok, amount)
       /\ debouncedEstimate = {[amount |-> amount, fromToken |-> inTok, toToken |-> outTok]}
  /\ estimates = <<>>
  /\ approvalTimers = {"initial", "periodic"}
  /\ checks = <<>>
  /\ txRuns = <<>>
  /\ lastRun = NoRun
  /\ started = 0
  /\ allowance = [k \in AllowKeys |-> Pow10(getTokenDecimals(k[1]))]
  /\ chainBalances = [t \in Symbols |-> ExecBalance * Pow10(getTokenDecimals(t))]
  /\ calls = [by \in Operations |-> NoCall]
  /\ applied = NoApplied
  /\ lastCheck = NoCheck
  /\ burst = [NoBurst EXCEPT !.open = TRUE, !.n = 1, !.total = 1]
  /\ TreasuryInit
  /\ devMode = FALSE
  /\ LpFrozen
  /\ BalancesInit("A", MountTime)
  /\ chainFees = DeployedFees
  /\ lastEstimate = NoEstimateCall

NextExec ==
  \/ handleButtonClick /\ UNCHANGED <<tvars, lpvars, balvars, chainvars, obsvars>>
  \/ closeTransactionModal /\ UNCHANGED <<tvars, lpvars, balvars, chainvars, obsvars>>
  \/ approveTokens /\ UNCHANGED <<tvars, lpvars, balvars, chainvars, obsvars>>
  \/ \E i \in 1..MaxStarted : \E ok \in BOOLEAN : TxSigner(i, ok) /\ UNCHANGED <<tvars, lpvars, balvars, chainvars, obsvars>>
  \/ \E i \in 1..MaxStarted : \E ok \in BOOLEAN : TxAllowance(i, ok) /\ UNCHANGED <<tvars, lpvars, balvars, chainvars, obsvars>>
  \/ \E i \in 1..MaxStarted : \E ok \in BOOLEAN : TxApprove(i, ok) /\ UNCHANGED <<tvars, lpvars, balvars, chainvars, obsvars>>
  \/ \E i \in 1..MaxStarted : \E ok \in BOOLEAN : TxApproveWait(i, ok) /\ UNCHANGED <<tvars, lpvars, balvars, chainvars, obsvars>>
  \/ \E i \in 1..MaxStarted : \E ok \in BOOLEAN : TxSwap(i, ok) /\ UNCHANGED <<tvars, lpvars, balvars, chainvars, obsvars>>
  \/ \E i \in 1..MaxStarted : \E ok \in BOOLEAN : TxSwapWait(i, ok) /\ UNCHANGED <<tvars, lpvars, balvars, chainvars, obsvars>>
  \/ \E i \in 1..MaxStarted : \E ok \in BOOLEAN : TxBalances(i, ok) /\ UNCHANGED <<tvars, lpvars, chainvars, obsvars>>
  \/ \E kind \in {"initial", "periodic"} : ApprovalTimerFire(kind) /\ UNCHANGED <<tvars, lpvars, balvars, chainvars, obsvars>>
  \/ \E i \in 1..MaxChecks : \E ok \in BOOLEAN : CheckSigner(i, ok) /\ UNCHANGED <<tvars, lpvars, balvars, chainvars, obsvars>>
  \/ \E i \in 1..MaxChecks : \E ok \in BOOLEAN : CheckAllowance(i, ok) /\ UNCHANGED <<tvars, lpvars, balvars, chainvars, obsvars>>
  \/ \E t \in debouncedEstimate : DebounceFire(t) /\ UNCHANGED <<tvars, lpvars, balvars, chainvars, obsvars>>
  \/ \E i \in 1..MaxEstimates : \E ok \in BOOLEAN :
       EstimateQuote(i, ok) /\ UNCHANGED <<tvars, lpvars, balvars, chainvars, obsvars>>
  \/ \E i \in 1..MaxEstimates : \E ok \in BOOLEAN :
       EstimateFee(i, ok) /\ UNCHANGED <<tvars, lpvars, balvars, chainvars, obsvars>>

SpecExec == InitExec /\ [][NextExec]_vars

\* a connected wallet and an amount just typed into the mounted form: the
\* inputs can change while approval checks are in flight
ApprovalUi ==
  ExecUi("USDC", "VUSD", Num(1))

InitApproval ==
  /\ ui = ApprovalUi
  /\ debouncedEstimate = {[amount |-> Num(1), fromToken |-> "USDC", toToken |-> "VUSD"]}
  /\ estimates = <<>>
  /\ approvalTimers = {"initial", "periodic"}
  /\ checks = <<>>
  /\ txRuns = <<>>
  /\ lastRun = NoRun
  /\ started = 0
  /\ allowance \in {[k \in AllowKeys |-> a] : a \in {0, MaxUint256}}
  /\ chainBalances = [t \in Symbols |-> ExecBalance * Pow10(getTokenDecimals(t))]
  /\ calls = [by \in Operations |-> NoCall]
  /\ applied = NoApplied
  /\ lastCheck = NoCheck
  /\ burst = [NoBurst EXCEPT !.open = TRUE, !.n = 1]
  /\ TreasuryInit
  /\ devMode = FALSE
  /\ LpFrozen
  /\ BalancesInit("A", MountTime)
  /\ chainFees = DeployedFees
  /\ lastEstimate = NoEstimateCall

NextApproval ==
  \/ \E value \in TypedValues : handleInputChange(value) /\ UNCHANGED <<tvars, lpvars, balvars, chainvars, obsvars>>
  \/ switchTokens /\ UNCHANGED <<tvars, lpvars, balvars, chainvars, obsvars>>
  \/ \E selectingFor \in {"input", "output"} : \E symbol \in Offered(ui, selectingFor) :
       onSelectToken(selectingFor, symbol) /\ UNCHANGED <<tvars, lpvars, balvars, chainvars, obsvars>>
  \/ \E kind \in {"initial", "periodic"} : ApprovalTimerFire(kind) /\ UNCHANGED <<tvars, lpvars, balvars, chainvars, obsvars>>
  \/ \E i \in 1..MaxChecks : \E ok \in BOOLEAN : CheckSigner(i, ok) /\ UNCHANGED <<tvars, lpvars, balvars, chainvars, obsvars>>
  \/ \E i \in 1..MaxChecks : \E ok \in BOOLEAN : CheckAllowance(i, ok) /\ UNCHANGED <<tvars, lpvars, balvars, chainvars, obsvars>>

SpecApproval == InitApproval /\ [][NextApproval]_vars

\* executeSwap called directly on the hook, whatever the wallet and the amount
\* field hold
InitGuard ==
  InitApproval

NextGuard ==
  \/ \E value \in TypedValues : handleInputChange(value) /\ UNCHANGED <<tvars, lpvars, balvars, chainvars, obsvars>>
  \/ disconnect /\ UNCHANGED <<tvars, lpvars, chainvars, obsvars>>
  \/ executeSwap /\ UNCHANGED <<tvars, lpvars, balvars, chainvars, obsvars>>
  \/ \E i \in 1..MaxStarted : \E ok \in BOOLEAN : TxSigner(i, ok) /\ UNCHANGED <<tvars, lpvars, balvars, chainvars, obsvars>>
  \/ \E i \in 1..MaxStarted : \E ok \in BOOLEAN : TxAllowance(i, ok) /\ UNCHANGED <<tvars, lpvars, balvars, chainvars, obsvars>>
  \/ \E i \in 1..MaxStarted : \E ok \in BOOLEAN : TxApprove(i, ok) /\ UNCHANGED <<tvars, lpvars, balvars, chainvars, obsvars>>
  \/ \E i \in 1..MaxStarted : \E ok \in BOOLEAN : TxApproveWait(i, ok) /\ UNCHANGED <<tvars, lpvars, balvars, chainvars, obsvars>>
  \/ \E i \in 1..MaxStarted : \E ok \in BOOLEAN : TxSwap(i, ok) /\ UNCHANGED <<tvars, lpvars, balvars, chainvars, obsvars>>
  \/ \E i \in 1..MaxStarted : \E ok \in BOOLEAN : TxSwapWait(i, ok) /\ UNCHANGED <<tvars, lpvars, balvars, chainvars, obsvars>>
  \/ \E i \in 1..MaxStarted : \E ok \in BOOLEAN : TxBalances(i, ok) /\ UNCHANGED <<tvars, lpvars, chainvars, obsvars>>

SpecGuard == InitGuard /\ [][NextGuard]_vars

\* a wallet just connected: the form as mounted, no balances yet, and the
\* balance effect's first fetchBalances in flight
InitBalances ==
  /\ ui = [InitialUi EXCEPT !.isConnected = TRUE,
                            !.buttonState = ComputeButton([InitialUi EXCEPT !.isConnected = TRUE])]
  /\ debouncedEstimate = {}
  /\ estimates = <<>>
  /\ approvalTimers = {}
  /\ checks = <<>>
  /\ txRuns = <<>>
  /\ lastRun = NoRun
  /\ started = 0
  /\ allowance = [k \in AllowKeys |-> 0]
  /\ chainBalances = AccountBalances("A")
  /\ calls = [by \in Operations |-> NoCall]
  /\ applied = NoApplied
  /\ lastCheck = NoCheck
  /\ burst = NoBurst
  /\ address = "A"
  /\ now = MountTime
  /\ balanceLastUpdated = 0
  /\ balanceFetches = <<[address |-> "A", now |-> MountTime, forceRefresh |-> FALSE]>>
  /\ lastCall = [made |-> TRUE, forceRefresh |-> FALSE, address |-> "A",
                 at |-> MountTime, lastUpdated |-> 0, issued |-> TRUE]
  /\ TreasuryInit
  /\ devMode = FALSE
  /\ LpFrozen
  /\ chainFees = DeployedFees
  /\ lastEstimate = NoEstimateCall

NextBalances ==
  \/ \E forceRefresh \in BOOLEAN : fetchBalances(forceRefresh) /\ UNCHANGED <<tvars, lpvars, chainvars, obsvars>>
  \/ \E i \in 1..MaxBalanceFetches : \E failAt \in ReadFailures :
       BalanceRead(i, failAt) /\ UNCHANGED <<tvars, lpvars, chainvars, obsvars>>
  \/ \E a \in Accounts : accountsChanged(a) /\ UNCHANGED <<tvars, lpvars, chainvars, obsvars>>
  \/ TimePasses /\ UNCHANGED <<tvars, lpvars, chainvars, obsvars>>

SpecBalances == InitBalances /\ [][NextBalances]_vars

\* estimateSwap called on the hook with any amount for the pair of a form
\* that holds a typed amount, against contracts answering either fee set
InitEstimate ==
  /\ \E pair \in {<<"USDC", "VUSD">>, <<"VUSD", "DAI">>} :
       /\ ui = [InitialUi EXCEPT !.inputToken = pair[1], !.outputToken = pair[2],
                                 !.inputAmount = Num(1)]
       /\ debouncedEstimate = {[amount |-> Num(1), fromToken |-> pair[1],
                                toToken |-> pair[2]]}
  /\ estimates = <<>>
  /\ approvalTimers = {}
  /\ checks = <<>>
  /\ txRuns = <<>>
  /\ lastRun = NoRun
  /\ started = 0
  /\ allowance = [k \in AllowKeys |-> 0]
  /\ chainBalances = [t \in Symbols |-> 0]
  /\ calls = [by \in Operations |-> NoCall]
  /\ applied = NoApplied
  /\ lastCheck = NoCheck
  /\ burst = [NoBurst EXCEPT !.open = TRUE, !.n = 1]
  /\ lastEstimate = NoEstimateCall
  /\ chainFees \in PossibleFees
  /\ BalancesInit("none", 0)
  /\ TreasuryInit
  /\ devMode = FALSE
  /\ LpFrozen

NextEstimate ==
  \/ \E amount \in EstimateArguments :
       estimateSwap(amount, ui.inputToken, ui.outputToken)
       /\ UNCHANGED <<tvars, lpvars, balvars, chainvars>>
  \/ \E t \in debouncedEstimate :
       DebounceFire(t) /\ UNCHANGED <<tvars, lpvars, balvars, chainvars, obsvars>>
  \/ \E i \in 1..MaxEstimates : \E ok \in BOOLEAN :
       EstimateQuote(i, ok) /\ UNCHANGED <<tvars, lpvars, balvars, chainvars, obsvars>>
  \/ \E i \in 1..MaxEstimates : \E ok \in BOOLEAN :
       EstimateFee(i, ok) /\ UNCHANGED <<tvars, lpvars, balvars, chainvars, obsvars>>

SpecEstimate == InitEstimate /\ [][NextEstimate]_vars

\* ===================================================================== claims
RECURSIVE SumValues(_)
SumValues(assets) ==
  IF assets = <<>> THEN Num(0) ELSE RAdd(assets[1].value, SumValues(Tail(assets)))

PairHasVusd(i) == i.token0.id = "VUSD" \/ i.token1.id = "VUSD"

\* the valuation of the side of the pair that is not VUSD
CounterpartValuation(i) ==
  LET otherId == IF i.token0.id = "VUSD" THEN i.token1.id ELSE i.token0.id
      otherReserve == IF i.token0.id = "VUSD" THEN i.reserve1 ELSE i.reserve0
      fraction == Rat(i.tokenBalance, i.totalSupply)
      units == IF otherId \in {"USDC", "USDT"} THEN Rat(otherReserve, Pow10(Dec6))
               ELSE Rat(otherReserve, Pow10(Dec18))
      price == IF otherId \in {"USDC", "USDT", "DAI"} THEN Num(1) ELSE Num(i.ethPrice)
  IN RMul(RMul(fraction, units), price)

\* C1: for a pair that contains VUSD (either side, any letter case) whose pool
\* reads returned, valueLpTokenAsset returns the ownership fraction of the
\* counterpart reserve, at 1:1 for USDC/USDT/DAI and at the ETH price
\* otherwise; nothing of the VUSD-side reserve is in the value.
C1_VusdPairCountsCounterpartOnly ==
  (lpOut.done /\ lpIn.hasFns /\ lpIn.ok /\ PairHasVusd(lpIn))
    => lpOut.value = CounterpartValuation(lpIn)

C1_Witness ==
  /\ lpOut.done /\ lpIn.hasFns /\ lpIn.ok
  /\ lpIn.token1 = Addr("VUSD", "mixed") /\ lpIn.token0.id = "USDC"
  /\ lpIn.reserve1 > 0 /\ lpIn.reserve0 > 0
  /\ lpIn.tokenBalance < lpIn.totalSupply
  /\ lpOut.value[1] > 0

\* C2: in every exposed treasuryData, totalValue is the sum of the value
\* fields of the entries of t1Assets and t2Assets.
C2_TotalIsSumOfHoldings ==
  treasuryData.totalValue
    = RAdd(SumValues(treasuryData.t1Assets), SumValues(treasuryData.t2Assets))

C2_Witness ==
  /\ tPub.seq = 2
  /\ devMode
  /\ Len(treasuryData.t1Assets) = 2
  /\ Len(treasuryData.t2Assets) = 3
  /\ ~tPub.rd.t2[2].pre.ok

\* C3: a published report has collateralizationRatio 1 when the circulating
\* supply is 0 and totalValue / circulatingSupply when it is positive.
C3_RatioIsOneAtZeroSupply ==
  tPub.seq # 0 =>
    treasuryData.collateralizationRatio
      = IF treasuryData.circulatingSupply = Num(0) THEN Num(1)
        ELSE RDiv(treasuryData.totalValue, treasuryData.circulatingSupply)

T2AssetReadsOk(k, r) ==
  /\ r.pre.ok
  /\ T2_ASSETS[k].assetType = "LP_TOKEN" => r.lp.ok
  /\ T2_ASSETS[k].assetType = "STAKED_ETH" => r.pooled.ok

TokenDecimals(symbol) == IF symbol \in {"USDC", "USDT"} THEN Dec6 ELSE Dec18

\* C4: whatever tier-2 reads fail, a run whose tier-1 reads returned publishes
\* a report that holds every tier-1 holding and every tier-2 asset whose
\* reads returned; only a tier-1 read failure ends a run without a report.
C4_Tier2FailureNeverAborts ==
  /\ tLast.outcome = "failed" => ~tLast.t1ok
  /\ tPub.seq # 0 =>
       /\ \A i \in 1..Len(tPub.rd.t1.whitelist.v) :
            LET a == tPub.rd.t1.whitelist.v[i]
            IN a.id \in {"VUSD", "USDC", "USDT", "DAI"} =>
                 \E j \in 1..Len(treasuryData.t1Assets) :
                   /\ treasuryData.t1Assets[j].symbol = a.id
                   /\ treasuryData.t1Assets[j].value
                        = Rat(tPub.rd.t1.withdrawable[a.id].v, Pow10(TokenDecimals(a.id)))
       /\ \A k \in 1..Len(T2_ASSETS) :
            T2AssetReadsOk(k, tPub.rd.t2[k]) =>
              \E j \in 1..Len(treasuryData.t2Assets) :
                treasuryData.t2Assets[j].symbol = T2_ASSETS[k].symbol

C4_Witness ==
  /\ tPub.seq # 0
  /\ ~devMode
  /\ ~tPub.rd.t2[1].pre.ok
  /\ ~tPub.rd.t2[2].lp.ok
  /\ T2AssetReadsOk(3, tPub.rd.t2[3])
  /\ Len(treasuryData.t1Assets) = 2
  /\ \E j \in 1..Len(treasuryData.t2Assets) :
       treasuryData.t2Assets[j].symbol = "VUSD/USDC LP"

\* C5: a tier-2 asset whose valuation failed adds nothing to the report (the
\* holdings carry no fallback flag, so a substitute value cannot be flagged).
C5_FailedValuationAddsNothing ==
  tPub.seq # 0 =>
    \A k \in 1..Len(T2_ASSETS) :
      (~tPub.rd.t2[k].pre.ok
         \/ (T2_ASSETS[k].assetType = "LP_TOKEN" /\ ~tPub.rd.t2[k].lp.ok)) =>
        \A j \in 1..Len(treasuryData.t2Assets) :
          treasuryData.t2Assets[j].symbol = T2_ASSETS[k].symbol
            => treasuryData.t2Assets[j].value = Num(0)

\* C6: a run in which the total-supply read, the whitelist read or a
\* whitelisted token's withdrawable read fails publishes nothing, reports one
\* error and leaves loading false.
C6_Tier1FailureFailsTheRun ==
  [][(tLast'.seq # tLast.seq /\ ~tLast'.t1ok)
       => /\ treasuryData' = treasuryData
          /\ treasuryErrors' = treasuryErrors + 1
          /\ ~treasuryLoading']_vars

C6_Witness ==
  /\ tLast.outcome = "failed" /\ ~tLast.t1ok
  /\ tPub.seq = 1 /\ tLast.seq = 2
  /\ treasuryErrors = 1
  /\ ~treasuryLoading
  /\ treasuryData # InitialTreasuryData

\* C7: every contract call of estimateSwap, the approval check, approveTokens
\* and executeSwap addresses the Minter if and only if the output token of the
\* pair it serves is 'VUSD' and the Redeemer otherwise, so for the same pair
\* the four operations address the same contract
C7_MintPathIffOutputIsVusd ==
  /\ \A by \in Operations :
       calls[by] # NoCall =>
         /\ calls[by].target \in {"minter", "redeemer"}
         /\ calls[by].target = "minter" <=> calls[by].toToken = "VUSD"
  /\ \A b1, b2 \in Operations :
       (/\ calls[b1] # NoCall
        /\ calls[b2] # NoCall
        /\ calls[b1].fromToken = calls[b2].fromToken
        /\ calls[b1].toToken = calls[b2].toToken)
       => calls[b1].target = calls[b2].target

C7_Witness ==
  /\ Cardinality({by \in Operations : calls[by] # NoCall}) >= 3
  /\ calls["estimateSwap"] # NoCall
  /\ calls["approvalCheck"] = calls["estimateSwap"]
  /\ calls["approveTokens"] = calls["estimateSwap"] \/ calls["executeSwap"] = calls["estimateSwap"]

\* the executeSwap calls in flight and the last one that ended
SwapRuns ==
  {r \in {txRuns[i] : i \in 1..Len(txRuns)} \cup {lastRun} :
     r.kind = "swap" /\ r.pc # "none"}

IsChainOp(op) == op \in {"allowance", "approve", "approveConfirmed", "mint", "redeem"}

ChainOps(r) == SelectSeq(r.ops, IsChainOp)

Submitted(r) == \E k \in 1..Len(r.ops) : r.ops[k] \in {"mint", "redeem"}

\* C8: in every run of executeSwap the mint / redeem is submitted only after
\* the run's allowance read returned at least the raw amount or after an
\* approve of the run was submitted and confirmed; with a smaller allowance
\* the chain operations come in the order allowance read, approve, approve
\* confirmation, mint / redeem; after a failed approve none is submitted
C8_SwapOnlyAfterAllowanceOrApproval ==
  \A r \in SwapRuns :
    /\ Submitted(r) =>
         \/ r.allowanceRead.ok /\ r.allowanceRead.v >= r.amount
         \/ \E a, c, m \in 1..Len(r.ops) :
              /\ a < c /\ c < m
              /\ r.ops[a] = "approve"
              /\ r.ops[c] = "approveConfirmed"
              /\ r.ops[m] \in {"mint", "redeem"}
    /\ (r.allowanceRead.ok /\ r.allowanceRead.v < r.amount) =>
         /\ Len(ChainOps(r)) <= 4
         /\ \A k \in 1..Len(ChainOps(r)) :
              ChainOps(r)[k] \in (CASE k = 1 -> {"allowance"}
                                    [] k = 2 -> {"approve"}
                                    [] k = 3 -> {"approveConfirmed"}
                                    [] OTHER -> {"mint", "redeem"})
    /\ (\E k \in 1..Len(r.ops) : r.ops[k] = "approveFailed") => ~Submitted(r)

C8_Witness ==
  \E r \in SwapRuns :
    /\ r.allowanceRead.ok
    /\ r.allowanceRead.v < r.amount
    /\ Len(ChainOps(r)) = 4
    /\ Submitted(r)

\* C9: an estimate response changes outputAmount (and fee) only if the amount,
\* input token and output token it was issued for equal the inputs current
\* when it arrives; a response for superseded inputs is never applied
C9_StaleEstimateNeverApplied ==
  applied.set =>
    /\ applied.amount = applied.curAmount
    /\ applied.fromToken = applied.curFrom
    /\ applied.toToken = applied.curTo

AmountBurst == burst.n >= 1 /\ ~burst.tokenChanged

\* C10 as stated: once the debounce window of a burst of amount changes has
\* ended, exactly one estimateSwap call has been issued, for the last value
C10_ExactlyOneCallForLastValue ==
  (AmountBurst /\ ~burst.open) => burst.issued = <<ui.inputAmount>>

\* C10: a burst of amount changes issues no call while its window is open;
\* when the window has ended it has issued exactly one call, for the last
\* value, if that value is positive, and none if the field was left empty
C10_OneCallForLastPositiveValue ==
  AmountBurst =>
    IF burst.open THEN burst.issued = <<>>
    ELSE burst.issued = IF ui.inputAmount[1] > 0 THEN <<ui.inputAmount>> ELSE <<>>

C10_Witness ==
  /\ AmountBurst
  /\ burst.n >= 2
  /\ ~burst.open
  /\ ui.inputAmount[1] > 0
  /\ burst.issued = <<ui.inputAmount>>

\* C11: when aggregation runs overlap, the report of a run that started
\* earlier never replaces the published report of a run that started later
C11_EarlierRunNeverReplacesLater ==
  [][tPub'.seq >= tPub.seq]_vars


\* C12: the result of an allowance check is written to needsApproval only if
\* the input amount, input token and output token it was computed for are
\* still the form's inputs when the response arrives
C12_StaleCheckNeverApplied ==
  lastCheck.written =>
    /\ lastCheck.amount = lastCheck.curAmount
    /\ lastCheck.fromToken = lastCheck.curFrom
    /\ lastCheck.toToken = lastCheck.curTo

\* a response arrived for inputs the form no longer holds, and was ignored
C12_Witness ==
  /\ lastCheck.arrived
  /\ ~lastCheck.written
  /\ <<lastCheck.amount, lastCheck.fromToken, lastCheck.toToken>>
       # <<lastCheck.curAmount, lastCheck.curFrom, lastCheck.curTo>>


\* C13: at any time at most one approval check is in flight; a timer that
\* fires while a check is outstanding issues no chain call
C13_AtMostOneCheckInFlight ==
  Cardinality({i \in 1..Len(checks) : checks[i].pc = "allowance"}) <= 1


\* C14: a call of executeSwap with the wallet disconnected or an amount that is
\* zero or negative is rejected, starts no signer request, allowance read or
\* transaction, and leaves loading, the balances and the quote as they were
C14_GuardedSwapTouchesNothing ==
  [][(executeSwap /\ (~ui.isConnected \/ ui.inputAmount[1] <= 0)) =>
       /\ lastRun'.pc = "rejected"
       /\ txRuns' = txRuns
       /\ calls' = calls
       /\ allowance' = allowance /\ chainBalances' = chainBalances
       /\ ui'.loading = ui.loading
       /\ ui'.balances = ui.balances
       /\ ui'.outputAmount = ui.outputAmount /\ ui'.fee = ui.fee]_vars

\* executeSwap was called with a connected wallet and no amount, and rejected
C14_Witness ==
  /\ lastRun.pc = "rejected"
  /\ lastRun.ops = <<"Invalid amount">>
  /\ ui.isConnected /\ ui.inputAmount[1] <= 0

C14_WitnessDisconnected ==
  /\ lastRun.pc = "rejected"
  /\ lastRun.ops = <<"Wallet not connected">>
  /\ ~ui.isConnected


\* C15: a call of approveTokens that completes has submitted one approval, of
\* MaxUint256, to the spender of its direction (input token to Minter when
\* minting, VUSD to Redeemer when redeeming), has awaited its confirmation, has
\* read no allowance, and leaves needsApproval false
C15_ApproveMaxThenSufficient ==
  (lastRun.kind = "approve" /\ lastRun.pc = "done") =>
    /\ lastRun.ops = <<"approve", "approveConfirmed">>
    /\ calls["approveTokens"] = [fromToken |-> lastRun.inputToken,
                                 toToken |-> lastRun.outputToken,
                                 target |-> IF lastRun.outputToken = "VUSD"
                                            THEN "minter" ELSE "redeemer"]
    /\ allowance[IF lastRun.outputToken = "VUSD"
                 THEN <<lastRun.inputToken, "minter">>
                 ELSE <<"VUSD", "redeemer">>] = MaxUint256
    /\ ~ui.needsApproval

\* approveTokens completed on the redeem path
C15_Witness ==
  /\ lastRun.kind = "approve"
  /\ lastRun.pc = "done"
  /\ lastRun.outputToken # "VUSD"
  /\ allowance[<<"VUSD", "redeemer">>] = MaxUint256


\* C16: a swap whose mint / redeem transaction was confirmed has triggered a
\* forced balance refresh and, once executeSwap has returned, a treasury-data
\* refresh; a failed attempt triggers neither
C16_ConfirmedSwapRefreshesBoth ==
  \A r \in SwapRuns :
    /\ (\E k \in 1..Len(r.ops) : r.ops[k] = "confirmed") =>
         \E k \in 1..Len(r.ops) : r.ops[k] = "fetchBalances(true)"
    /\ r.pc = "done" => tStarted > 0
    /\ r.pc = "failed" =>
         /\ \A k \in 1..Len(r.ops) : r.ops[k] # "fetchBalances(true)"
         /\ tStarted = 0


\* C17: a call of fetchBalances with forceRefresh = false made less than the
\* cache window after the last successful fetch starts no chain read and
\* leaves the balances as they are; made after the window it reads the chain;
\* with forceRefresh = true it reads the chain whatever the timestamp
C17_CacheWindowRespected ==
  [][\A forceRefresh \in BOOLEAN :
       fetchBalances(forceRefresh) =>
         IF ~forceRefresh /\ now - balanceLastUpdated < BALANCE_CACHE_DURATION
         THEN /\ balanceFetches' = balanceFetches
              /\ ui'.balances = ui.balances
              /\ balanceLastUpdated' = balanceLastUpdated
         ELSE /\ Len(balanceFetches') = Len(balanceFetches) + 1
              /\ balanceFetches'[Len(balanceFetches')].address = address]_vars

\* an un-forced call inside the window read nothing, after balances had been
\* fetched
C17_Witness ==
  /\ lastCall.made
  /\ ~lastCall.forceRefresh
  /\ lastCall.lastUpdated > 0
  /\ lastCall.at - lastCall.lastUpdated < BALANCE_CACHE_DURATION
  /\ ~lastCall.issued

C17_WitnessForced ==
  /\ lastCall.made
  /\ lastCall.forceRefresh
  /\ lastCall.at - lastCall.lastUpdated < BALANCE_CACHE_DURATION
  /\ lastCall.issued

C17_WitnessElapsed ==
  /\ lastCall.made
  /\ ~lastCall.forceRefresh
  /\ lastCall.lastUpdated > 0
  /\ lastCall.at - lastCall.lastUpdated >= BALANCE_CACHE_DURATION
  /\ lastCall.issued

\* C18: when the connected address changes, the fetchBalances that follows
\* reads the new account's balances from the chain even if the previous
\* account's balances were fetched within the cache window
C18_AccountChangeRefetches ==
  [][address' # address =>
       \E i \in 1..Len(balanceFetches') : balanceFetches'[i].address = address']_vars


\* C19: a refreshTreasuryData call without force, made right after a
\* successful aggregation (no time has passed, so within any cache window),
\* returns the cached report and starts no run that queries the chain
C19_UnforcedCallUsesCachedReport ==
  [][(FetchStart(FALSE) /\ tLast.outcome = "published") =>
       (tStarted' = tStarted /\ tRuns' = tRuns)]_vars


\* a step in which an await of executeSwap or approveTokens rejects
TxRejects ==
  \E i \in 1..Len(txRuns) :
    \/ TxSigner(i, FALSE) \/ TxAllowance(i, FALSE) \/ TxApprove(i, FALSE)
    \/ TxApproveWait(i, FALSE) \/ TxSwap(i, FALSE) \/ TxSwapWait(i, FALSE)

\* a step in which an await of estimateSwap rejects
EstimateRejects ==
  \E i \in 1..Len(estimates) : EstimateQuote(i, FALSE) \/ EstimateFee(i, FALSE)

\* nothing is awaited: no estimate, approval or swap is in flight
Settled == estimates = <<>> /\ txRuns = <<>>

\* C20: when an await of estimateSwap, approveTokens or executeSwap rejects,
\* the step leaves loading false and a failure the user can see (the
\* estimation notice; txStatus "error" and the failure notice of the click
\* handler); once nothing is awaited any more, loading is false and txStatus
\* is not "pending"
C20_FailureEndsVisibleAndIdle ==
  /\ [][EstimateRejects => (~ui'.loading /\ ui'.toast = "Estimation Error")]_vars
  /\ [][TxRejects =>
          /\ ~ui'.loading
          /\ lastRun'.pc = "failed"
          /\ (lastRun'.viaHandler /\ lastRun'.kind = "swap") =>
               (ui'.txStatus = "error" /\ ui'.toast = "Transaction Failed")
          /\ (lastRun'.viaHandler /\ lastRun'.kind = "approve") =>
               (ui'.txStatus = "none" /\ ui'.toast = "Approval Failed")]_vars
  /\ [](Settled => (~ui.loading /\ ui.txStatus # "pending"))

\* a swap started by the click handler failed and nothing is awaited any more
C20_Witness ==
  /\ lastRun.kind = "swap"
  /\ lastRun.viaHandler
  /\ lastRun.pc = "failed"
  /\ Settled
  /\ ui.txStatus = "error"
  /\ ui.toast = "Transaction Failed"
  /\ ~ui.loading

C20_WitnessEstimate ==
  /\ Settled
  /\ ui.toast = "Estimation Error"
  /\ debouncedEstimate = {}

C20_WitnessApprove ==
  /\ lastRun.kind = "approve"
  /\ lastRun.pc = "failed"
  /\ Settled


\* C21: when a chain call of estimateSwap fails, the step leaves the quote at
\* zero, the estimation notice shown and loading false, and changes neither
\* the input amount nor the selected tokens
C21_FailedEstimateRecoversToZeroQuote ==
  [][EstimateRejects =>
       /\ ui'.outputAmount = Num(0)
       /\ ui'.toast = "Estimation Error"
       /\ ~ui'.loading
       /\ ui'.inputAmount = ui.inputAmount
       /\ ui'.inputToken = ui.inputToken
       /\ ui'.outputToken = ui.outputToken]_vars

\* an estimate failed and the form still holds the amount it was typed with
C21_Witness ==
  /\ ui.toast = "Estimation Error"
  /\ ui.outputAmount = Num(0)
  /\ ui.inputAmount[1] > 0
  /\ ~ui.loading
  /\ estimates = <<>>


\* C22: a call of estimateSwap with an amount that is zero, negative or not a
\* number leaves the quote at zero and issues no chain call
C22_InvalidAmountGivesZeroQuote ==
  [][\A amount \in EstimateArguments :
       (estimateSwap(amount, ui.inputToken, ui.outputToken) /\ InvalidAmount(amount)) =>
         /\ ui'.outputAmount = Num(0)
         /\ estimates' = estimates
         /\ calls' = calls]_vars

\* after a quote had been applied, estimateSwap was called with not-a-number
\* and the quote is zero
C22_Witness ==
  /\ lastEstimate.called
  /\ lastEstimate.amount = NaN
  /\ ~lastEstimate.issued
  /\ applied.set
  /\ ui.outputAmount = Num(0)
  /\ ui.toast = "none"

C22_WitnessNegative ==
  /\ lastEstimate.called
  /\ lastEstimate.amount[1] < 0
  /\ ~lastEstimate.issued
  /\ ui.outputAmount = Num(0)

C22_WitnessZero ==
  /\ lastEstimate.called
  /\ lastEstimate.amount = Num(0)
  /\ ~lastEstimate.issued
  /\ ui.outputAmount = Num(0)

\* C24: the fee shown once the fee read of an estimate for the form's pair has
\* answered is the fee the contract of that path returned (raw fee over
\* MAX_BPS), so that contracts answering different fees show different fees
C24_FeeShownIsContractFee ==
  [][\A i \in 1..Len(estimates) :
       (EstimateFee(i, TRUE) /\ estimates[i].toToken = ui.outputToken) =>
         FeeShown(ui') =
           formatUnits(chainFees[Target(estimateDirection(estimates[i].toToken))], 4)]_vars


\* C23: a step in which an await of approveTokens or executeSwap rejects
\* leaves the cached balances and the cache timestamp as they were; the
\* balances change only in a step in which fetchBalances completes its reads
C23_FailedAttemptKeepsBalances ==
  /\ [][TxRejects => (ui'.balances = ui.balances
                      /\ balanceLastUpdated' = balanceLastUpdated)]_vars
  /\ [][ui'.balances # ui.balances =>
          \E i \in 1..Len(txRuns) : TxBalances(i, TRUE)]_vars

\* a swap whose transaction was submitted failed; the cache is as it was loaded
C23_Witness ==
  /\ lastRun.kind = "swap"
  /\ lastRun.pc = "failed"
  /\ \E k \in 1..Len(lastRun.ops) : lastRun.ops[k] = "swapFailed"
  /\ ui.balances = [t \in Symbols |-> Num(ExecBalance)]
  /\ balanceLastUpdated = MountTime

C23_WitnessApprove ==
  /\ lastRun.kind = "approve"
  /\ lastRun.pc = "failed"
  /\ ui.balances = [t \in Symbols |-> Num(ExecBalance)]


\* C25: after any sequence of token selections and direction switches from
\* USDC -> VUSD the input token and the output token differ, and
\* onSelectToken given the token shown on the other side exchanges the two
C25_TokensStayDifferent ==
  /\ ui.inputToken # ui.outputToken
  /\ \A selectingFor \in {"input", "output"} : \A symbol \in Symbols :
       LET s == Selected(ui, selectingFor, symbol)
           other == IF selectingFor = "input" THEN ui.outputToken ELSE ui.inputToken
       IN /\ s.inputToken # s.outputToken
          /\ symbol = other =>
               (s.inputToken = ui.outputToken /\ s.outputToken = ui.inputToken)

\* DAI was selected as the input token and the direction was then switched
C25_Witness ==
  /\ ui.inputToken = "VUSD"
  /\ ui.outputToken = "DAI"
  /\ burst.total >= 2

\* C26: after any sequence of token selections and direction switches exactly
\* one of the input token and the output token is VUSD, and no estimate is
\* issued for a pair of two other tokens
C26_ExactlyOneSideIsVusd ==
  /\ (ui.inputToken = "VUSD") # (ui.outputToken = "VUSD")
  /\ \A i \in 1..Len(estimates) :
       (estimates[i].fromToken = "VUSD") # (estimates[i].toToken = "VUSD")


\* the approval and swap transactions started by a click that are in flight
ClickRuns == {i \in 1..Len(txRuns) : txRuns[i].viaHandler}

\* C27: while a transaction started by a button click is in flight the
\* loading flag is true, under every interleaving with debounced estimates and
\* approval checks, and no click starts a second transaction meanwhile
C27_LoadingHeldWhileInFlight ==
  /\ ClickRuns # {} => ui.loading
  /\ Cardinality(ClickRuns) <= 1


\* the allowance the chain holds for the form's pair
FormAllowance ==
  allowance[IF ui.outputToken = "VUSD" THEN <<ui.inputToken, "minter">>
            ELSE <<"VUSD", "redeemer">>]

\* approveTokens has failed for the pair and the amount the form still shows,
\* and nothing else is awaited
ApprovalFailed ==
  /\ lastRun.kind = "approve"
  /\ lastRun.pc = "failed"
  /\ txRuns = <<>>
  /\ estimates = <<>>
  /\ <<lastRun.inputToken, lastRun.outputToken, lastRun.inputAmount>> =
       <<ui.inputToken, ui.outputToken, ui.inputAmount>>

\* C28: a failed approveTokens leaves needsApproval true where it was true,
\* and after a failed approval with the allowance still short of the amount
\* the button does not offer "Swap"
C28_FailedApprovalStaysNeeded ==
  ApprovalFailed =>
    /\ RunEnd([ui EXCEPT !.needsApproval = TRUE], lastRun, FALSE).needsApproval
    /\ LET amount == parseUnits(ui.inputAmount,
                                AmountDecimals(lastRun.direction, ui.inputToken))
       IN (amount # Fail /\ FormAllowance < amount.v) => ui.buttonState.text # "Swap"


\* C29: fetchBalances updates all or nothing: when the read of any one
\* token's balance rejects, no balance changes and the cache timestamp stays;
\* when all reads answer, every supported token's balance is the one read for
\* the call's account and the timestamp is the call's time
C29_BalancesAllOrNothing ==
  [][\A i \in 1..Len(balanceFetches) : \A failAt \in ReadFailures :
       BalanceRead(i, failAt) =>
         IF failAt # 0
         THEN ui'.balances = ui.balances /\ balanceLastUpdated' = balanceLastUpdated
         ELSE /\ \A k \in 1..Len(SUPPORTED_TOKENS) :
                   ui'.balances[SUPPORTED_TOKENS[k].symbol] =
                     formatUnits(AccountBalances(balanceFetches[i].address)[SUPPORTED_TOKENS[k].symbol],
                                 SUPPORTED_TOKENS[k].decimals)
              /\ balanceLastUpdated' = balanceFetches[i].now]_vars

\* a forced fetch for account B failed after account A's balances had been
\* cached: the cache still holds A's balances and its timestamp
C29_Witness ==
  /\ lastCall.made
  /\ lastCall.forceRefresh
  /\ lastCall.address = "B"
  /\ lastCall.issued
  /\ balanceFetches = <<>>
  /\ ui.balances = FormattedBalances("A")
  /\ balanceLastUpdated = lastCall.lastUpdated
  /\ balanceLastUpdated > 0

\* all reads of a fetch for account B answered
C29_WitnessAll ==
  /\ ui.balances = FormattedBalances("B")
  /\ balanceLastUpdated > MountTime


\* run i is a swap attempt started from the button
ClickSwap(i) == txRuns[i].kind = "swap" /\ txRuns[i].viaHandler

\* a step in which an await of run i rejects
RunRejects(i) ==
  \/ TxSigner(i, FALSE) \/ TxAllowance(i, FALSE) \/ TxApprove(i, FALSE)
  \/ TxApproveWait(i, FALSE) \/ TxSwap(i, FALSE) \/ TxSwapWait(i, FALSE)

\* a step in which executeSwap of run i returns
RunReturns(i) == TxBalances(i, TRUE) \/ TxBalances(i, FALSE)

Confirmed(r) == \E k \in 1..Len(r.ops) : r.ops[k] = "confirmed"

\* C30: a swap attempt started from the button ends in one outcome. txStatus
\* becomes "pending" by the click alone; it becomes "success" only in the step
\* in which executeSwap returns, after the mint / redeem transaction of that
\* attempt was confirmed; when executeSwap throws, the step sets "error",
\* leaves the inputs as they were and leaves the button free for a new click
C30_AttemptEndsInOneOutcome ==
  /\ [][\A i \in 1..Len(txRuns) : ClickSwap(i) =>
          /\ RunReturns(i) => (ui'.txStatus = "success" /\ Confirmed(txRuns[i]))
          /\ RunRejects(i) =>
               /\ ui'.txStatus = "error"
               /\ ~Confirmed(txRuns[i])
               /\ <<ui'.inputAmount, ui'.inputToken, ui'.outputToken>> =
                    <<ui.inputAmount, ui.inputToken, ui.outputToken>>
               /\ ~(ui'.buttonState.disabled \/ ui'.loading)]_vars
  /\ [][(ui'.txStatus = "success" /\ ui.txStatus # "success") =>
          \E i \in 1..Len(txRuns) :
            ClickSwap(i) /\ RunReturns(i) /\ Confirmed(txRuns[i])]_vars
  /\ [][(ui'.txStatus = "error" /\ ui.txStatus # "error") =>
          \/ \E i \in 1..Len(txRuns) : ClickSwap(i) /\ RunRejects(i)
          \/ handleButtonClick /\ ui.inputAmount[1] <= 0]_vars
  /\ [][(ui'.txStatus = "pending" /\ ui.txStatus # "pending") => handleButtonClick]_vars

\* a click's swap was confirmed and the dialog shows success
C30_Witness ==
  /\ lastRun.kind = "swap"
  /\ lastRun.viaHandler
  /\ lastRun.pc = "done"
  /\ Confirmed(lastRun)
  /\ ui.txStatus = "success"

\* a click's swap failed after its transaction was submitted: error is
\* shown, the inputs are those of the attempt, the button is free
C30_WitnessError ==
  /\ lastRun.kind = "swap"
  /\ lastRun.viaHandler
  /\ lastRun.pc = "failed"
  /\ Submitted(lastRun)
  /\ ui.txStatus = "error"
  /\ <<ui.inputAmount, ui.inputToken, ui.outputToken>> =
       <<lastRun.inputAmount, lastRun.inputToken, lastRun.outputToken>>
  /\ ~(ui.buttonState.disabled \/ ui.loading)

====
